---- MODULE Spec2Model ----
(***************************************************************************)
(* Model of the API-seeding core of the Formbricks challenge CLI:          *)
(* APISeeder.create_surveys and APISeeder.submit_responses                 *)
(* (src/formbricks_cli/api_seeder.py), run one after the other as          *)
(* seed_command does (src/formbricks_cli/commands.py).                     *)
(*                                                                         *)
(* Python values are tagged records; Python strings are sequences of       *)
(* characters, so that formatting "survey_{i}" and parsing it back         *)
(* (startswith / split / int) are computed rather than assumed.            *)
(***************************************************************************)
EXTENDS Integers, Sequences, FiniteSets, TLC

\* Bounds of the model: the longest input lists that are explored.
MaxSurveys == 2
MaxResponses == 2

VARIABLES
    pc,                 \* position of the run
    environment_id,     \* APISeeder.environment_id
    surveys_data,       \* argument of create_surveys
    i,                  \* loop variable of create_surveys (enumerate(..., 1))
    created_surveys,    \* list built and returned by create_surveys
    create_log,         \* create-survey requests sent for the current survey
    responses_in,       \* argument of submit_responses as it was at the call
    responses_data,     \* the response objects (mutated in place by the code)
    j,                  \* index of the response being processed
    survey_mapping,     \* dict built by submit_responses: key -> entry index
    created_responses,  \* list returned by submit_responses (object references)
    response_count,     \* local counter of submit_responses
    skipped_count,      \* local counter of submit_responses
    actual_survey_id,   \* remote survey id the current response is sent to
    cand,               \* next endpoint/shape combination, 1..4
    submit_log,         \* submission requests sent for the current response
    users_in,           \* argument of create_users as it was at the call
    users_data,         \* the user objects (mutated in place by the code)
    prepared_users,     \* list returned by create_users (object references)
    environ,            \* os.environ after load_dotenv(): the FORMBRICKS_* variables
    api_available,      \* seed_command's api_available (PyNone before it is set)
    probe_log,          \* requests sent by test_connection
    results,            \* seed_command's results object (PyNone before it is built)
    results_file,       \* content of seed_results/api_results.json (PyNone: not written)
    use_openai,         \* DataGenerator.use_openai
    gen_count,          \* argument count of generate_surveys / generate_users
    gen_i,              \* loop variable i of the generator loop being run
    calls,              \* survey generator calls made by generate_surveys
    gen_surveys,        \* list surveys of generate_surveys / generate_responses
    gen_users,          \* list users of generate_users / generate_responses
    gen_responses,      \* list responses built by generate_responses
    response_id,        \* local counter response_id of generate_responses
    data_files,         \* content of generated_data/{surveys,users,responses}.json
    loaded,             \* what seed_command's json.load calls returned (PyNone: not loaded)
    q_idx,              \* loop variable q_idx of the question conversion
    api_questions,      \* list questions built by the question conversion
    max_retries,        \* argument max_retries of retry_operation
    delay,              \* argument delay of retry_operation
    attempt,            \* loop variable attempt of retry_operation
    op_log,             \* outcomes of the calls retry_operation made of operation
    sleep_log,          \* arguments of the time.sleep calls of retry_operation
    retry_result        \* how retry_operation ended (PyNone: it has not)

vars == << pc, environment_id, surveys_data, i, created_surveys, create_log,
           responses_in, responses_data, j, survey_mapping,
           created_responses, response_count, skipped_count, actual_survey_id,
           cand, submit_log, users_in, users_data, prepared_users,
           environ, api_available, probe_log, results, results_file,
           use_openai, gen_count, gen_i, calls, gen_surveys, gen_users,
           gen_responses, response_id, data_files, loaded, q_idx,
           api_questions, max_retries, delay, attempt, op_log, sleep_log,
           retry_result >>

\* The variables of create_users.
user_vars == << users_in, users_data, prepared_users >>

\* The variables of seed_command around the seeding calls.
seed_vars == << environ, api_available, results, results_file >>

\* The locals of the question conversion in create_surveys.
convert_vars == << q_idx, api_questions >>

\* The data files and what seed_command read from them.
file_vars == << data_files, loaded >>

\* The variables of the DataGenerator methods.
gen_vars == << use_openai, gen_count, gen_i, calls, gen_surveys, gen_users,
              gen_responses, response_id >>

\* The arguments and locals of retry_operation.
retry_vars == << max_retries, delay, attempt, op_log, sleep_log, retry_result >>

\* The variables the seeding calls and seed_command leave alone.
other_vars == << gen_vars, file_vars, convert_vars, retry_vars >>

-----------------------------------------------------------------------------
(* Python values *)

PyNone == [t |-> "none"]
PyStr(s) == [t |-> "str", s |-> s]
PyInt(n) == [t |-> "int", n |-> n]
PyBool(b) == [t |-> "bool", b |-> b]
PyList(items) == [t |-> "list", items |-> items]

\* A key a dict does not have (yet).
Absent == [t |-> "absent"]

\* Python truthiness, as used by `if not x` and `x or y`.
Truthy(v) ==
    CASE v.t = "none" -> FALSE
      [] v.t = "str"  -> Len(v.s) > 0
      [] v.t = "int"  -> v.n # 0
      [] v.t = "bool" -> v.b

Digits == << "0", "1", "2", "3", "4", "5", "6", "7", "8", "9" >>

IsDigit(c) == \E d \in 1..Len(Digits) : Digits[d] = c

DigitValue(c) == (CHOOSE d \in 1..Len(Digits) : Digits[d] = c) - 1

\* str(n) for a natural number: its decimal digits.
RECURSIVE Str(_)
Str(n) ==
    IF n < Len(Digits) THEN << Digits[n + 1] >>
    ELSE Str(n \div Len(Digits)) \o << Digits[(n % Len(Digits)) + 1] >>

\* Value of a non-empty sequence of decimal digits.
RECURSIVE DigitsValue(_)
DigitsValue(s) ==
    IF Len(s) = 0 THEN 0
    ELSE DigitsValue(SubSeq(s, 1, Len(s) - 1)) * Len(Digits) + DigitValue(s[Len(s)])

\* int(s) for a string: an optional sign followed by one or more digits;
\* anything else raises ValueError (ok = FALSE).
IntParse(s) ==
    LET signed == Len(s) > 0 /\ s[1] \in {"+", "-"}
        body   == IF signed THEN Tail(s) ELSE s
        wellformed == Len(body) > 0 /\ \A k \in 1..Len(body) : IsDigit(body[k])
    IN  IF ~wellformed THEN [ok |-> FALSE, n |-> 0]
        ELSE [ok |-> TRUE,
              n  |-> IF signed /\ s[1] = "-" THEN 0 - DigitsValue(body)
                     ELSE DigitsValue(body)]

\* s.startswith(p)
StartsWith(s, p) == Len(s) >= Len(p) /\ SubSeq(s, 1, Len(p)) = p

\* s.split(sep) for a one-character separator.
RECURSIVE Split(_, _)
Split(s, sep) ==
    IF \A k \in 1..Len(s) : s[k] # sep THEN << s >>
    ELSE LET p == CHOOSE k \in 1..Len(s) :
                      s[k] = sep /\ \A m \in 1..(k - 1) : s[m] # sep
         IN  << SubSeq(s, 1, p - 1) >> \o Split(SubSeq(s, p + 1, Len(s)), sep)

SurveyPrefix == << "s", "u", "r", "v", "e", "y", "_" >>
MockPrefix == << "m", "o", "c", "k", "_" >> \o SurveyPrefix
ErrorPrefix == << "e", "r", "r", "o", "r", "_" >> \o SurveyPrefix

\* f"survey_{n}"
SurveyKey(n) == SurveyPrefix \o Str(n)

-----------------------------------------------------------------------------
(* The environment identifier *)

HardcodedId == PyStr(<< "c", "m", "j" >>)

\* Values of the FORMBRICKS_ENVIRONMENT_ID variable: unset, empty, set.
EnvValues == { PyNone, PyStr(<< >>), PyStr(<< "e", "n", "v" >>) }

\* GetEnvironmentId without the hardcoded fallback.
GetEnvironmentIdNoFallback(env_id) == env_id

\* _get_environment_id, given the value of FORMBRICKS_ENVIRONMENT_ID.
GetEnvironmentId(env_id) == IF Truthy(env_id) THEN env_id ELSE HardcodedId

-----------------------------------------------------------------------------
(* Inputs *)

\* A generated survey: its local id and its name.
Survey(k) == [id |-> PyStr(SurveyKey(k)), name |-> << "n" >> \o Str(k)]

\* The first n generated surveys, in the order of generation.
Generated(n) == [k \in 1..n |-> Survey(k)]

Reverse(s) == [k \in 1..Len(s) |-> s[Len(s) + 1 - k]]

\* The lists create_surveys is given: the generated surveys as they were
\* written to surveys.json, or that list in reverse order.
SurveyLists ==
    { Generated(n) : n \in 0..MaxSurveys } \cup
    { Reverse(Generated(n)) : n \in 0..MaxSurveys }

-----------------------------------------------------------------------------
(* The remote system *)

\* Status codes the remote system may answer with.
Statuses == { 200, 201, 204, 500 }

\* The remote system carried the request out iff it answers 2xx.
Is2xx(status) == status \div 100 = 2

\* What the body of an answer to a create-survey request may hold:
\* "id" = JSON with data.id, "noid" = JSON without data.id,
\* "bad" = not JSON (response.json() raises), "none" = no usable body.
Bodies(status) == IF status \in { 200, 201 } THEN { "id", "noid", "bad" } ELSE { "none" }

Exception == [kind |-> "exception", status |-> 0, body |-> "none"]

Answer(status, body) == [kind |-> "response", status |-> status, body |-> body]

CreateOutcomes ==
    { Exception } \cup { Answer(st, b) : st \in Statuses, b \in { "id", "noid", "bad", "none" } }

\* Outcomes of a create-survey request the remote system can produce.
CreateOutcome(out) == out = Exception \/ out.body \in Bodies(out.status)

\* The id the remote system assigns to the survey that the n-th create-survey
\* request of the run creates: a fresh id for every request.
RemoteId(n) == PyStr(<< "r" >> \o Str(n))

-----------------------------------------------------------------------------
(* create_surveys *)

\* The status check of create_surveys.
Accepted(status) == status \in { 200, 201 }

\* Payload without the environment identifier.
PayloadWithoutEnvironment(survey, env) ==
    [kind |-> "no_environment", environmentId |-> PyNone, name |-> survey.name]

\* The payload create_surveys builds for a survey: the full payload, with the
\* environment identifier.
Payload(survey, env) ==
    [kind |-> "full", environmentId |-> env, name |-> survey.name]

\* result.get("data", {}).get("id", f"survey_{len(created_surveys)}")
ActualSurveyId(body, remote_id, len) ==
    IF body = "id" THEN remote_id ELSE PyStr(SurveyKey(len))

SurveyInfo(survey, position, actual) ==
    [ id           |-> actual,
      name         |-> survey.name,
      api_success  |-> TRUE,
      survey_id    |-> actual,
      generated_id |-> PyStr(SurveyKey(position)),
      position     |-> position ]

\* MockRecord with the 0-based list length used where the position belongs.
MockRecordByLength(survey, position, len) ==
    [ id           |-> PyStr(MockPrefix \o Str(len)),
      name         |-> survey.name,
      api_success  |-> FALSE,
      survey_id    |-> PyNone,
      generated_id |-> PyStr(SurveyKey(len)),
      position     |-> len ]

\* The record appended when the status is not accepted.
MockRecord(survey, position, len) ==
    [ id           |-> PyStr(MockPrefix \o Str(len)),
      name         |-> survey.name,
      api_success  |-> FALSE,
      survey_id    |-> PyNone,
      generated_id |-> PyStr(SurveyKey(position)),
      position     |-> position ]

\* The record appended by the except branch.
ErrorRecord(survey, position, len) ==
    [ id           |-> PyStr(ErrorPrefix \o Str(len)),
      name         |-> survey.name,
      api_success  |-> FALSE,
      survey_id    |-> PyNone,
      generated_id |-> PyStr(SurveyKey(position)),
      position     |-> position ]

\* CreateMockSurveys with the 0-based index used as position (no "+ 1").
CreateMockSurveysZeroBased(surveys) ==
    [ k \in 1..Len(surveys) |->
        [ id           |-> PyStr(MockPrefix \o Str(k - 1)),
          name         |-> surveys[k].name,
          api_success  |-> FALSE,
          survey_id    |-> PyNone,
          generated_id |-> PyStr(SurveyKey(k - 1)),
          position     |-> k - 1 ] ]

\* _create_mock_surveys: enumerate() counts from 0 here.
CreateMockSurveys(surveys) ==
    [ k \in 1..Len(surveys) |->
        [ id           |-> PyStr(MockPrefix \o Str(k - 1)),
          name         |-> surveys[k].name,
          api_success  |-> FALSE,
          survey_id    |-> PyNone,
          generated_id |-> PyStr(SurveyKey((k - 1) + 1)),
          position     |-> (k - 1) + 1 ] ]

\* CreatedEntries without the except branch: a transport failure leaves no entry.
CreatedEntriesNoExcept(survey, position, len, out, remote_id) ==
    IF out.kind = "exception" THEN << >>
    ELSE IF Accepted(out.status) /\ out.body \in { "id", "noid" }
         THEN << SurveyInfo(survey, position,
                            ActualSurveyId(out.body, remote_id, len)) >>
         ELSE << MockRecord(survey, position, len) >>

\* The entries one iteration of the loop appends for the outcome of its request.
CreatedEntries(survey, position, len, out, remote_id) ==
    IF out.kind = "exception" THEN << ErrorRecord(survey, position, len) >>
    ELSE IF Accepted(out.status)
         THEN IF out.body \in { "id", "noid" }
              THEN << SurveyInfo(survey, position,
                                 ActualSurveyId(out.body, remote_id, len)) >>
              ELSE << ErrorRecord(survey, position, len) >>
         ELSE << MockRecord(survey, position, len) >>

\* The call: create_surveys(surveys_data), up to the first iteration.
CreateSurveysCall ==
    /\ pc = "start"
    /\ \E s \in SurveyLists :
        /\ surveys_data' = s
        /\ IF ~Truthy(environment_id)
           THEN /\ created_surveys' = CreateMockSurveys(s)
                /\ pc' = "created"
           ELSE /\ created_surveys' = << >>
                /\ pc' = IF Len(s) = 0 THEN "created" ELSE "create_loop"
    /\ i' = 1
    /\ probe_log' = << >>
    /\ UNCHANGED seed_vars
    /\ UNCHANGED << user_vars, other_vars >>
    /\ UNCHANGED << environment_id, create_log, responses_in,
                    responses_data, j, survey_mapping, created_responses,
                    response_count, skipped_count, actual_survey_id, cand,
                    submit_log >>

\* One iteration of the loop over surveys_data: the payload is sent once and
\* an entry is appended for its outcome.
CreateSurvey ==
    /\ pc = "create_loop"
    /\ \E out \in CreateOutcomes :
        /\ CreateOutcome(out)
        /\ LET survey    == surveys_data[i]
               remote_id == RemoteId(i)
           IN  /\ create_log' = << [payload |-> Payload(survey, environment_id),
                                    outcome |-> out] >>
               /\ created_surveys' =
                    created_surveys \o
                    CreatedEntries(survey, i, Len(created_surveys), out, remote_id)
    /\ i' = i + 1
    /\ pc' = IF i = Len(surveys_data) THEN "created" ELSE "create_loop"
    /\ UNCHANGED << user_vars, seed_vars, probe_log, other_vars >>
    /\ UNCHANGED << environment_id, surveys_data, responses_in, responses_data, j,
                    survey_mapping, created_responses, response_count,
                    skipped_count, actual_survey_id, cand, submit_log >>

-----------------------------------------------------------------------------
(* create_users *)

UserPrefix == << "u", "s", "e", "r", "_" >>

\* str(uuid.uuid5(uuid.NAMESPACE_DNS, email)): a fixed function of the email,
\* never equal to the email itself.
Uuid5(email) == << "uuid5(" >> \o email \o << ")" >>

\* A user numbering in which every user is a manager.
UserAllManagers(k, email) ==
    [ id          |-> PyStr(UserPrefix \o Str(k)),
      email       |-> email,
      role        |-> "manager",
      api_user_id |-> Absent ]

\* A generated user: local id, email and role, and no api_user_id yet.
User(k, email) ==
    [ id          |-> PyStr(UserPrefix \o Str(k)),
      email       |-> email,
      role        |-> IF k - 1 < 2 THEN "owner" ELSE "manager",
      api_user_id |-> Absent ]

\* Emails of the input users (two users may have the same email).
Emails == { << "a@x.io" >>, << "b@y.co" >> }

\* The user lists create_users is given: up to two generated users.
UserLists ==
    UNION { { [k \in 1..n |-> User(k, e[k])] : e \in [1..n -> Emails] } : n \in 0..2 }

\* The loop body of create_users: the user object itself gets the field.
PrepareUser(user_data) ==
    [user_data EXCEPT !.api_user_id = PyStr(Uuid5(user_data.email))]

\* create_users(users_data): the whole loop (it sends no request).
CreateUsers ==
    /\ pc = "created"
    /\ \E us \in UserLists :
        /\ users_in' = us
        /\ users_data' = [k \in 1..Len(us) |-> PrepareUser(us[k])]
        /\ prepared_users' = [k \in 1..Len(us) |-> k]
    /\ pc' = "prepared"
    /\ UNCHANGED << seed_vars, probe_log, other_vars >>
    /\ UNCHANGED << environment_id, surveys_data, i, created_surveys, create_log,
                    responses_in, responses_data, j, survey_mapping,
                    created_responses, response_count, skipped_count,
                    actual_survey_id, cand, submit_log >>

-----------------------------------------------------------------------------
(* submit_responses *)

\* A generated response: its survey reference (PyNone when the key is missing
\* or null: the code reads it with .get) and no outcome fields yet.
Response(ref) ==
    [ survey_id     |-> ref,
      api_success   |-> Absent,
      submitted     |-> Absent,
      api_survey_id |-> Absent,
      endpoint_used |-> Absent,
      mapped_from   |-> Absent ]

\* Survey references of the input responses: missing, the ids of the first two
\* generated surveys, "survey_01", "survey_x", "x" and the number 7.
RefValues ==
    { PyNone, PyInt(7), PyStr(<< "x" >>),
      PyStr(SurveyPrefix \o << "0", "1" >>), PyStr(SurveyPrefix \o << "x" >>) }
    \cup { Survey(k).id : k \in 1..2 }

ResponseLists ==
    UNION { [1..n -> { Response(ref) : ref \in RefValues }] : n \in 0..MaxResponses }

\* An endpoint list with a third endpoint to fall back to.
EndpointsWithThird ==
    << << "/api/v1/client/responses" >>, << "/api/v1/responses" >>,
       << "/api/v2/responses" >> >>

\* The endpoints submit_responses tries, in order (without the base URL).
Endpoints == << << "/api/v1/client/responses" >>, << "/api/v1/responses" >> >>

AltSuffix == << " (alt format)" >>

\* Status codes the remote system answers a submission with.
SubmitStatuses == { 200, 201, 500 }

SubmitOutcomes == { Exception } \cup { Answer(st, "none") : st \in SubmitStatuses }

\* ApiSurveys without the filter on api_success.
ApiSurveysUnfiltered(created) == created

\* [s for s in created_surveys if s.get("api_success", False)]
ApiSurveys(created) == SelectSeq(created, LAMBDA s : s.api_success)

\* The key under which the loop over api_surveys stores an entry (PyNone: none).
MappingKey(survey) ==
    IF Truthy(survey.generated_id) THEN survey.generated_id
    ELSE IF survey.position # 0 THEN PyStr(SurveyKey(survey.position))
    ELSE PyNone

\* A table that holds the first of the entries only.
BuildSurveyMappingFirstOnly(api) ==
    [ key \in { MappingKey(api[k]) : k \in 1..(IF Len(api) = 0 THEN 0 ELSE 1) } |-> api[1] ]

\* survey_mapping as the loop over api_surveys leaves it: a later entry
\* overwrites an earlier one with the same key.
BuildSurveyMapping(api) ==
    LET keyed == { k \in 1..Len(api) : MappingKey(api[k]) # PyNone }
        last(key) == CHOOSE k \in keyed :
                        /\ MappingKey(api[k]) = key
                        /\ \A m \in keyed : MappingKey(api[m]) = key => m <= k
    IN  [ key \in { MappingKey(api[k]) : k \in keyed } |-> api[last(key)] ]

EmptyMapping == BuildSurveyMapping(<< >>)

\* Lines 330-343: the entry a survey reference resolves to.
\*   kind "found": entry; "none": no entry; "raise": an exception reaches the
\*   outer except (a reference that is not a string has no startswith).
ResolveSurvey(ref, mapping, api) ==
    IF ref \in DOMAIN mapping THEN [kind |-> "found", entry |-> mapping[ref]]
    ELSE IF ref.t # "str" THEN [kind |-> "raise"]
    ELSE IF ~StartsWith(ref.s, SurveyPrefix) THEN [kind |-> "none"]
    ELSE LET survey_num == IntParse(Split(ref.s, "_")[2])
             hits == { k \in 1..Len(api) : api[k].position = survey_num.n }
         IN  IF survey_num.ok /\ hits # { }
             THEN [kind |-> "found",
                   entry |-> api[CHOOSE k \in hits : \A m \in hits : k <= m]]
             ELSE [kind |-> "none"]

\* api_survey.get("survey_id") or api_survey.get("id")
EntrySurveyId(entry) == IF Truthy(entry.survey_id) THEN entry.survey_id ELSE entry.id

MarkUnsubmitted(response) ==
    [response EXCEPT !.api_success = PyBool(FALSE), !.submitted = PyBool(FALSE)]

\* EndpointUsed without the mark of the alternate shape.
EndpointUsedPlain(endpoint, shape) == PyStr(endpoint)

EndpointUsed(endpoint, shape) ==
    IF shape = "primary" THEN PyStr(endpoint) ELSE PyStr(endpoint \o AltSuffix)

MarkSubmitted(response, survey_id, endpoint, shape) ==
    [response EXCEPT !.api_success = PyBool(TRUE),
                     !.submitted = PyBool(TRUE),
                     !.api_survey_id = survey_id,
                     !.endpoint_used = EndpointUsed(endpoint, shape),
                     !.mapped_from = response.survey_id]

\* The status check of submit_responses, for both payload shapes.
SubmitAccepted(status) == status \in { 200, 201 }

\* AfterAttempt with a transport failure handled like a rejected status.
AfterAttemptExceptionAsStatus(e, shape, out) ==
    IF out.kind = "response" /\ SubmitAccepted(out.status)
    THEN [act |-> "submitted", endpoint |-> e, shape |-> shape]
    ELSE IF shape = "primary"
    THEN [act |-> "retry", endpoint |-> e, shape |-> "alt"]
    ELSE IF e < Len(Endpoints)
    THEN [act |-> "retry", endpoint |-> e + 1, shape |-> "primary"]
    ELSE [act |-> "give_up", endpoint |-> e, shape |-> shape]

\* What the endpoint loop does after the request for (endpoint e, shape) ended
\* with `out`: "submitted", "retry" with the next combination, or "give_up".
AfterAttempt(e, shape, out) ==
    IF out.kind = "response" /\ SubmitAccepted(out.status)
    THEN [act |-> "submitted", endpoint |-> e, shape |-> shape]
    ELSE IF out.kind = "response" /\ shape = "primary"
    THEN [act |-> "retry", endpoint |-> e, shape |-> "alt"]
    ELSE IF e < Len(Endpoints)
    THEN [act |-> "retry", endpoint |-> e + 1, shape |-> "primary"]
    ELSE [act |-> "give_up", endpoint |-> e, shape |-> shape]

FirstCandidate == [endpoint |-> 1, shape |-> "primary"]

\* The call: submit_responses(responses_data, created_surveys), up to the
\* first iteration of the loop over responses_data.
SubmitResponsesCall ==
    /\ pc = "prepared"
    /\ \E rs \in ResponseLists :
        /\ responses_in' = rs
        /\ IF Len(ApiSurveys(created_surveys)) = 0
           THEN /\ responses_data' = [k \in 1..Len(rs) |-> MarkUnsubmitted(rs[k])]
                /\ created_responses' = [k \in 1..Len(rs) |-> k]
                /\ survey_mapping' = EmptyMapping
                /\ pc' = "done"
           ELSE /\ responses_data' = rs
                /\ created_responses' = << >>
                /\ survey_mapping' = BuildSurveyMapping(ApiSurveys(created_surveys))
                /\ pc' = IF Len(rs) = 0 THEN "done" ELSE "submit_loop"
    /\ j' = 1
    /\ response_count' = 0
    /\ skipped_count' = 0
    /\ create_log' = << >>
    /\ users_in' = << >>
    /\ users_data' = << >>
    /\ prepared_users' = << >>
    /\ UNCHANGED << seed_vars, probe_log, other_vars >>
    /\ UNCHANGED << environment_id, surveys_data, i, created_surveys,
                    actual_survey_id, cand, submit_log >>

\* Where the loop over responses_data goes after the j-th response.
NextResponse ==
    /\ j' = j + 1
    /\ pc' = IF j = Len(responses_data) THEN "done" ELSE "submit_loop"

\* The three `continue` branches: counted as skipped, marked, appended.
SkipResponse ==
    /\ responses_data' = [responses_data EXCEPT ![j] = MarkUnsubmitted(@)]
    /\ created_responses' = Append(created_responses, j)
    /\ skipped_count' = skipped_count + 1
    /\ NextResponse
    /\ UNCHANGED << actual_survey_id, cand >>

\* OuterExcept without the count.
OuterExceptUncounted ==
    /\ NextResponse
    /\ UNCHANGED << responses_data, created_responses, actual_survey_id, cand,
                    skipped_count >>

\* The outer except: counted as skipped, nothing appended.
OuterExcept ==
    /\ skipped_count' = skipped_count + 1
    /\ NextResponse
    /\ UNCHANGED << responses_data, created_responses, actual_survey_id, cand >>

\* The start of an iteration (lines 319-380): resolve the survey reference.
ResolveResponse ==
    /\ pc = "submit_loop"
    /\ submit_log' = << >>
    /\ \E ref \in { responses_data[j].survey_id } :
       \E api_survey \in { ResolveSurvey(ref, survey_mapping, ApiSurveys(created_surveys)) } :
           IF ~Truthy(ref) THEN SkipResponse
           ELSE IF api_survey.kind = "raise" THEN OuterExcept
           ELSE IF api_survey.kind = "none" THEN SkipResponse
           ELSE IF ~Truthy(EntrySurveyId(api_survey.entry)) THEN SkipResponse
           ELSE /\ actual_survey_id' = EntrySurveyId(api_survey.entry)
                /\ cand' = FirstCandidate
                /\ pc' = "submit_try"
                /\ UNCHANGED << responses_data, created_responses, skipped_count, j >>
    /\ UNCHANGED << user_vars, seed_vars, probe_log, other_vars >>
    /\ UNCHANGED << environment_id, surveys_data, i, created_surveys, create_log,
                    responses_in, survey_mapping, response_count >>

\* One request of the endpoint loop (lines 382-440) and what follows it.
SubmitAttempt ==
    /\ pc = "submit_try"
    /\ \E out \in SubmitOutcomes :
        LET after == AfterAttempt(cand.endpoint, cand.shape, out)
        IN  /\ submit_log' = Append(submit_log,
                                    [ endpoint |-> Endpoints[cand.endpoint],
                                      shape    |-> cand.shape,
                                      surveyId |-> actual_survey_id,
                                      outcome  |-> out ])
            /\ CASE after.act = "submitted" ->
                      /\ responses_data' =
                            [responses_data EXCEPT ![j] =
                                MarkSubmitted(@, actual_survey_id,
                                              Endpoints[after.endpoint], after.shape)]
                      /\ created_responses' = Append(created_responses, j)
                      /\ response_count' = response_count + 1
                      /\ NextResponse
                      /\ UNCHANGED << skipped_count, cand >>
                 [] after.act = "retry" ->
                      /\ cand' = [endpoint |-> after.endpoint, shape |-> after.shape]
                      /\ UNCHANGED << pc, j, responses_data, created_responses,
                                      response_count, skipped_count >>
                 [] after.act = "give_up" ->
                      /\ responses_data' =
                            [responses_data EXCEPT ![j] = MarkUnsubmitted(@)]
                      /\ created_responses' = Append(created_responses, j)
                      /\ skipped_count' = skipped_count + 1
                      /\ NextResponse
                      /\ UNCHANGED << response_count, cand >>
    /\ UNCHANGED << user_vars, seed_vars, probe_log, other_vars >>
    /\ UNCHANGED << environment_id, surveys_data, i, created_surveys, create_log,
                    responses_in, survey_mapping, actual_survey_id >>

-----------------------------------------------------------------------------
(* The seed action: formbricks_main("seed"), seed_command, APISeeder.__init__
   and test_connection *)

\* os.environ after load_dotenv(): the three FORMBRICKS_* variables
\* (PyNone: the variable is not set).
Environ(url, key, env_id) ==
    [ FORMBRICKS_URL            |-> url,
      FORMBRICKS_API_KEY        |-> key,
      FORMBRICKS_ENVIRONMENT_ID |-> env_id ]

UrlValues == { PyNone, PyStr(<< "http://localhost:3000" >>) }

KeyValues == { PyNone, PyStr(<< >>), PyStr(<< "k" >>) }

\* ValidateEnvironment that requires the URL only.
ValidateEnvironmentUrlOnly(env) == Truthy(env.FORMBRICKS_URL)

\* validate_environment(): both required variables are set and non-empty.
ValidateEnvironment(env) ==
    \A var \in { "FORMBRICKS_URL", "FORMBRICKS_API_KEY" } : Truthy(env[var])

\* self.api_key = api_key or os.getenv("FORMBRICKS_API_KEY"), called without
\* arguments.
ApiKey(env) == env.FORMBRICKS_API_KEY

\* APISeeder.__init__ raises ValueError when there is no API key.
ConstructorRaises(env) == ~Truthy(ApiKey(env))

\* Outcomes of a GET sent by test_connection.
ProbeOutcomes == { Exception } \cup { Answer(st, "none") : st \in Statuses }

\* test_connection sends the second GET only after the first was answered 200.
ProbesApi(root) == root.kind = "response" /\ root.status = 200

\* The requests test_connection sends, given the outcome of the GET of the base
\* URL and (if it is sent) of the GET of the surveys API.
ProbeLog(root, api) ==
    IF ProbesApi(root)
    THEN << [url |-> "base_url", outcome |-> root],
            [url |-> "/api/v1/management/surveys", outcome |-> api] >>
    ELSE << [url |-> "base_url", outcome |-> root] >>

\* TestConnectionResult that needs status 200 from the surveys API too.
TestConnectionResultApiOk(root, api) ==
    ProbesApi(root) /\ api.kind = "response" /\ api.status = 200

\* What test_connection returns: True once the base URL answered 200 and the
\* second GET was answered at all; False for another status or any exception.
TestConnectionResult(root, api) == ProbesApi(root) /\ api.kind = "response"

\* The results object of the simulated run (api_available false). The fields
\* users_generated, timestamp and note are left out of both results objects.
SimulatedResults(surveys, responses) ==
    [ api_available               |-> FALSE,
      surveys_generated           |-> Len(surveys),
      responses_generated         |-> Len(responses),
      surveys_created_via_api     |-> 0,
      responses_submitted_via_api |-> 0 ]

\* ApiSurveysCreated counting every entry, whatever its api_success.
ApiSurveysCreatedAll(created) == Len(created)

\* sum(1 for s in created_surveys if s.get("api_success", False))
ApiSurveysCreated(created) ==
    Cardinality({ k \in 1..Len(created) : created[k].api_success })

\* ApiResponsesSubmitted counting every returned response, whatever its
\* submitted flag.
ApiResponsesSubmittedAll(returned, objects) == Len(returned)

\* sum(1 for r in created_responses if r.get("submitted", False)); the
\* returned list holds references to the response objects.
ApiResponsesSubmitted(returned, objects) ==
    Cardinality({ k \in 1..Len(returned) :
                    objects[returned[k]].submitted = PyBool(TRUE) })

\* The results object of a run that used the API.
ApiResults(surveys, responses, created, returned) ==
    [ api_available               |-> TRUE,
      surveys_generated           |-> Len(surveys),
      responses_generated         |-> Len(responses),
      surveys_created_via_api     |-> ApiSurveysCreated(created),
      responses_submitted_via_api |-> ApiResponsesSubmitted(returned, responses) ]

\* "Save results": the file is written, or writing fails and is ignored.
SaveResults(res) ==
    /\ results' = res
    /\ results_file' \in { res, PyNone }
    /\ pc' = "finished"

\* main.py: the seed action validates the environment before seed_command.
FormbricksMain ==
    /\ pc = "main"
    /\ pc' = IF ValidateEnvironment(environ) THEN "seed" ELSE "exit"
    /\ UNCHANGED << environment_id, surveys_data, i, created_surveys, create_log,
                    responses_in, responses_data, j, survey_mapping,
                    created_responses, response_count, skipped_count,
                    actual_survey_id, cand, submit_log, user_vars, other_vars, seed_vars,
                    probe_log >>

\* seed_command up to the construction of the seeder: the generated data is
\* there and readable, or the command returns.
LoadData ==
    /\ pc = "seed"
    /\ \E files \in { "missing", "unreadable", "present" } :
          pc' = IF files = "present" THEN "construct" ELSE "returned"
    /\ UNCHANGED << environment_id, surveys_data, i, created_surveys, create_log,
                    responses_in, responses_data, j, survey_mapping,
                    created_responses, response_count, skipped_count,
                    actual_survey_id, cand, submit_log, user_vars, other_vars, seed_vars,
                    probe_log >>

\* seeder = APISeeder(): the constructor raises (caught by seed_command) or
\* sets environment_id; it sends no request.
Construct ==
    /\ pc = "construct"
    /\ IF ConstructorRaises(environ)
       THEN /\ api_available' = PyBool(FALSE)
            /\ pc' = "simulate"
            /\ UNCHANGED environment_id
       ELSE /\ environment_id' = GetEnvironmentId(environ.FORMBRICKS_ENVIRONMENT_ID)
            /\ pc' = "test_connection"
            /\ UNCHANGED api_available
    /\ UNCHANGED << surveys_data, i, created_surveys, create_log,
                    responses_in, responses_data, j, survey_mapping,
                    created_responses, response_count, skipped_count,
                    actual_survey_id, cand, submit_log, user_vars, other_vars, environ,
                    results, results_file, probe_log >>

\* api_available = seeder.test_connection()
TestConnection ==
    /\ pc = "test_connection"
    /\ \E root \in ProbeOutcomes, api \in ProbeOutcomes :
        /\ probe_log' = ProbeLog(root, api)
        /\ api_available' = PyBool(TestConnectionResult(root, api))
        /\ pc' = IF TestConnectionResult(root, api) THEN "start" ELSE "simulate"
    /\ UNCHANGED << environment_id, surveys_data, i, created_surveys, create_log,
                    responses_in, responses_data, j, survey_mapping,
                    created_responses, response_count, skipped_count,
                    actual_survey_id, cand, submit_log, user_vars, other_vars, environ,
                    results, results_file >>

\* The branch `if not api_available`: the simulated results are built from
\* the lengths of the loaded lists and saved; no seeding call is made.
Simulate ==
    /\ pc = "simulate"
    /\ \E s \in SurveyLists, rs \in ResponseLists :
          SaveResults(SimulatedResults(s, rs))
    /\ UNCHANGED << environment_id, surveys_data, i, created_surveys, create_log,
                    responses_in, responses_data, j, survey_mapping,
                    created_responses, response_count, skipped_count,
                    actual_survey_id, cand, submit_log, user_vars, other_vars, environ,
                    api_available, probe_log >>

\* After submit_responses returned: the results are computed and saved, and
\* seed_command returns (its local variables are gone; the results stay).
EmitResults ==
    /\ pc = "done"
    /\ SaveResults(ApiResults(surveys_data, responses_data, created_surveys,
                              created_responses))
    /\ surveys_data' = << >>
    /\ i' = 1
    /\ created_surveys' = << >>
    /\ responses_in' = << >>
    /\ responses_data' = << >>
    /\ j' = 1
    /\ survey_mapping' = EmptyMapping
    /\ created_responses' = << >>
    /\ response_count' = 0
    /\ skipped_count' = 0
    /\ actual_survey_id' = PyNone
    /\ cand' = FirstCandidate
    /\ submit_log' = << >>
    /\ UNCHANGED << environment_id, create_log, user_vars, other_vars, environ,
                    api_available, probe_log >>

-----------------------------------------------------------------------------
(* data_generator.py: DataGenerator *)

Min(a, b) == IF a < b THEN a ELSE b

\* The seeder and seed_command are not involved: their state is unchanged
\* by the generator methods.
SeedingUnchanged ==
    UNCHANGED << environment_id, surveys_data, i, created_surveys, create_log,
                 responses_in, responses_data, j, survey_mapping,
                 created_responses, response_count, skipped_count,
                 actual_survey_id, cand, submit_log, user_vars, seed_vars,
                 probe_log, file_vars, convert_vars, retry_vars >>

\* The fixed table of survey archetypes: (name, context).
survey_types ==
    << [ name    |-> << "Customer Satisfaction Survey" >>,
         context |-> << "customer feedback about services" >> ],
       [ name    |-> << "Employee Engagement Survey" >>,
         context |-> << "employee satisfaction and workplace feedback" >> ],
       [ name    |-> << "Product Feedback Survey" >>,
         context |-> << "user feedback about a software product" >> ],
       [ name    |-> << "Market Research Survey" >>,
         context |-> << "consumer preferences and market trends" >> ],
       [ name    |-> << "Website Usability Survey" >>,
         context |-> << "user experience on a website" >> ] >>

\* count = min(count, len(survey_types))
Capped(count) == Min(count, Len(survey_types))

\* The values of count generate_surveys is called with.
MaxCount == 6

CountValues == (0 - 1)..MaxCount

question_types == << "rating", "multipleChoice", "openText" >>

\* num_questions = random.randint(3, 5)
MinQuestions == 3

MaxQuestions == 5

\* A question dict: its type and its id (Absent: no such key).  The template
\* text, "required" and the type's own keys are left out.
Question(type, id) == [t |-> "dict", type |-> type, id |-> id]

\* f"q{i}"
QuestionId(n) == PyStr(<< "q" >> \o Str(n))

\* The draws of random.choices(question_types): which type each of the up to
\* five questions of one survey gets.  Two of the draws are followed, each
\* giving a survey of mixed types.
TypeDraws ==
    { [q \in 1..MaxQuestions |-> question_types[((q + r) % Len(question_types)) + 1]]
        : r \in 0..1 }

\* _generate_mock_survey(name, context) when num_questions is n and the types
\* drawn are draw: name, type "link" and n questions with ids q1..qn.
GenerateMockSurvey(name, n, draw) ==
    [ name      |-> PyStr(name),
      type      |-> PyStr(<< "link" >>),
      questions |-> PyList([q \in 1..n |-> Question(PyStr(<< draw[q] >>), QuestionId(q))]) ]

\* Everything _generate_mock_survey(name, context) can return.
MockSurveys(name) ==
    { GenerateMockSurvey(name, n, draw) : n \in MinQuestions..MaxQuestions, draw \in TypeDraws }

\* JSON objects the backend can answer with, as json.loads returns them.
\* A survey as asked for, with the requested name:
JsonSurvey(name) ==
    [ name      |-> PyStr(name),
      type      |-> PyStr(<< "link" >>),
      questions |-> PyList(<< Question(PyStr(<< "rating" >>), QuestionId(1)),
                              Question(PyStr(<< "openText" >>), QuestionId(2)),
                              Question(PyStr(<< "rating" >>), QuestionId(3)) >>) ]

\* the same with question ids left out, or given out of order:
JsonSurveyWithIds(name, ids) ==
    [JsonSurvey(name) EXCEPT
        !.questions = PyList([q \in 1..Len(ids) |-> [@.items[q] EXCEPT !.id = ids[q]]])]

\* an object that is no survey at all, such as {"error": "..."}:
JsonNoSurvey == [name |-> Absent, type |-> Absent, questions |-> Absent]

\* and a survey whose questions are plain strings instead of objects.
JsonStringQuestions(name) ==
    [JsonSurvey(name) EXCEPT !.questions = PyList(<< PyStr(<< "How was it?" >>) >>)]

\* What one backend call does: it raises, answers with text that holds no
\* JSON object, with braces that json.loads rejects, or with a JSON object.
BackendReplies(name) ==
    { [kind |-> "raise"], [kind |-> "text"], [kind |-> "invalid"] }
    \cup { [kind |-> "json", data |-> data] :
             data \in { JsonSurvey(name),
                        JsonSurveyWithIds(name, << Absent, QuestionId(1), Absent >>),
                        JsonNoSurvey,
                        JsonStringQuestions(name) } }

\* for i, question in enumerate(questions, 1): if "id" not in question:
\* question["id"] = f"q{i}"
FillIds(questions) ==
    PyList([q \in 1..Len(questions.items) |->
               IF questions.items[q].id = Absent
               THEN [questions.items[q] EXCEPT !.id = QuestionId(q)]
               ELSE questions.items[q]])

\* The fill-in loop raises TypeError on a question that is a string (without
\* "id" in it): question["id"] = ... is an item assignment on a str.
FillRaises(data) ==
    /\ data.questions # Absent
    /\ \E q \in 1..Len(data.questions.items) : data.questions.items[q].t # "dict"

\* _generate_survey_with_llm(name, context) when the backend does reply and
\* _generate_mock_survey would return mock: the parsed object with its
\* question ids filled in, or the mock survey if anything raised or no JSON
\* object was found.
GenerateSurveyWithLlm(reply, mock) ==
    IF reply.kind = "json" /\ ~FillRaises(reply.data)
    THEN [reply.data EXCEPT !.questions = IF @ = Absent THEN Absent ELSE FillIds(@)]
    ELSE mock

\* f"survey_{i}" for i counted from 0: the id of a zero-based numbering.
LocalSurveyIdZeroBased(n) == PyStr(SurveyKey(n))

\* survey["id"] = f"survey_{i+1}"
LocalSurveyId(n) == PyStr(SurveyKey(n + 1))

\* Lines 81-85: the fields generate_surveys sets on every survey.
WithRequiredFields(survey, n) ==
    [ name      |-> survey.name,
      type      |-> survey.type,
      questions |-> survey.questions,
      id        |-> LocalSurveyId(n),
      status    |-> PyStr(<< "inProgress" >>) ]

\* The generator call of lines 76-79, as it is made.
GeneratorCall(archetype) ==
    [ fn      |-> IF use_openai THEN "_generate_survey_with_llm" ELSE "_generate_mock_survey",
      name    |-> archetype.name,
      context |-> archetype.context ]

\* generate_surveys(count) is called.
GenerateSurveysCall ==
    /\ pc = "generate_surveys"
    /\ \E count \in CountValues : gen_count' = count
    /\ gen_surveys' = << >>
    /\ calls' = << >>
    /\ gen_i' = 0
    /\ pc' = "surveys_loop"
    /\ UNCHANGED << use_openai, gen_users, gen_responses, response_id >>
    /\ SeedingUnchanged

\* One iteration of the loop of generate_surveys (lines 73-87), or its end.
GenerateSurvey ==
    /\ pc = "surveys_loop"
    /\ IF gen_i < Capped(gen_count)
       THEN \E archetype \in { survey_types[gen_i + 1] } :
            \E mock \in MockSurveys(archetype.name) :
            \E reply \in BackendReplies(archetype.name) :
            \E survey \in { IF use_openai THEN GenerateSurveyWithLlm(reply, mock) ELSE mock } :
               /\ calls' = Append(calls, GeneratorCall(archetype))
               /\ gen_surveys' = Append(gen_surveys, WithRequiredFields(survey, gen_i))
               /\ gen_i' = gen_i + 1
               /\ UNCHANGED pc
       ELSE /\ pc' = "surveys_returned"
            /\ UNCHANGED << calls, gen_surveys, gen_i >>
    /\ UNCHANGED << use_openai, gen_count, gen_users, gen_responses, response_id >>
    /\ SeedingUnchanged

\* The values of count generate_users is called with.
MaxUserCount == 10

\* generate_users(count), lines 98-116: one user per i in range(count), with
\* id user_{i+1}, a randomly composed email and the role by position.  Name,
\* company and dates are left out.
GenerateUsers ==
    /\ pc = "generate_users"
    /\ \E count \in 0..MaxUserCount :
       \E email \in [1..count -> Emails] :
          /\ gen_count' = count
          /\ gen_users' = [k \in 1..count |-> User(k, email[k])]
          /\ gen_i' = count
    /\ pc' = "users_returned"
    /\ UNCHANGED << use_openai, calls, gen_surveys, gen_responses, response_id >>
    /\ SeedingUnchanged

ResponsePrefix == << "r", "e", "s", "p", "o", "n", "s", "e", "_" >>

\* The user lists generate_responses is given: what generate_users returns for
\* up to MaxRespondents users (the emails play no part).
MaxRespondents == 4

RespondentLists ==
    { [k \in 1..n |-> User(k, CHOOSE email \in Emails : TRUE)] : n \in 0..MaxRespondents }

\* available_users = users.copy(); random.shuffle(available_users)
Shuffles(users) ==
    { [k \in 1..Len(users) |-> users[p[k]]] : p \in Permutations(1..Len(users)) }

\* A draw that allows a fourth response per survey.
NumResponsesUpToFour(n) == 1..Min(4, n)

\* num_responses = random.randint(1, min(3, len(available_users))): the values
\* the draw can give.
NumResponses(n) == 1..Min(3, n)

\* random.randint(1, 0) raises ValueError: an empty user list has no draw.
RandintRaises(n) == Min(3, n) < 1

\* Lines 143-150: the response with the given number, without its answers,
\* dates and time to complete.
GeneratedResponse(number, survey, user) ==
    [ id        |-> PyStr(ResponsePrefix \o Str(number)),
      survey_id |-> survey.id,
      user_id   |-> user.id ]

\* The inner loop (lines 132-153) for one survey: one response for each of the
\* first num_responses shuffled users, stopping where the users run out.
ResponsesFor(survey, available_users, num_responses, first_id) ==
    [k \in 1..Min(num_responses, Len(available_users)) |->
        GeneratedResponse(first_id + k - 1, survey, available_users[k])]

\* generate_responses(surveys, users) is called.
GenerateResponsesCall ==
    /\ pc = "generate_responses"
    /\ gen_responses' = << >>
    /\ response_id' = 1
    /\ gen_i' = 0
    /\ pc' = "responses_loop"
    /\ UNCHANGED << use_openai, gen_count, calls, gen_surveys, gen_users >>
    /\ SeedingUnchanged

\* One iteration of the loop over surveys (lines 124-153), or its end.
GenerateResponsesFor ==
    /\ pc = "responses_loop"
    /\ IF gen_i < Len(gen_surveys)
       THEN IF RandintRaises(Len(gen_users))
            THEN /\ pc' = "responses_raised"
                 /\ UNCHANGED << gen_responses, response_id, gen_i >>
            ELSE \E available_users \in Shuffles(gen_users) :
                 \E num_responses \in NumResponses(Len(available_users)) :
                 \E new \in { ResponsesFor(gen_surveys[gen_i + 1], available_users,
                                            num_responses, response_id) } :
                    /\ gen_responses' = gen_responses \o new
                    /\ response_id' = response_id + Len(new)
                    /\ gen_i' = gen_i + 1
                    /\ UNCHANGED pc
       ELSE /\ pc' = "responses_returned"
            /\ UNCHANGED << gen_responses, response_id, gen_i >>
    /\ UNCHANGED << use_openai, gen_count, calls, gen_surveys, gen_users >>
    /\ SeedingUnchanged

-----------------------------------------------------------------------------
(* The data files: json.dump in generate_command, json.load in seed_command *)

\* A dict: its items in insertion order, each a key and a value.
PyDict(items) == [t |-> "dict", items |-> items]

Item(k, v) == [k |-> k, v |-> v]

\* A key that is a string literal of the code.
Key(name) == PyStr(<< name >>)

\* d[k] = v: the value of an existing key is replaced in place, a new key is
\* added at the end.
DictSet(d, k, v) ==
    IF \E n \in 1..Len(d.items) : d.items[n].k = k
    THEN PyDict([n \in 1..Len(d.items) |->
                    IF d.items[n].k = k THEN Item(k, v) ELSE d.items[n]])
    ELSE PyDict(Append(d.items, Item(k, v)))

\* A dict literal: the keys whose value is Absent are not there.
DictOf(items) == PyDict(SelectSeq(items, LAMBDA item : item.v # Absent))

\* The characters a JSON string is written with: quotes and backslashes are
\* escaped.
RECURSIVE Escape(_)
Escape(s) ==
    IF s = << >> THEN << >>
    ELSE (IF Head(s) \in { "\"", "\\" } THEN << "\\", Head(s) >> ELSE << Head(s) >>)
         \o Escape(Tail(s))

Quoted(s) == << "\"" >> \o Escape(s) \o << "\"" >>

\* The parts joined with commas.
RECURSIVE Join(_)
Join(parts) ==
    IF Len(parts) = 0 THEN << >>
    ELSE IF Len(parts) = 1 THEN parts[1]
    ELSE parts[1] \o << "," >> \o Join(Tail(parts))

\* The text json.dump writes for a dict key: a str key as it is, an int, bool
\* or None key converted to a string.
KeyText(k) ==
    CASE k.t = "str"  -> k.s
      [] k.t = "int"  -> Str(k.n)
      [] k.t = "bool" -> IF k.b THEN << "t", "r", "u", "e" >> ELSE << "f", "a", "l", "s", "e" >>
      [] k.t = "none" -> << "n", "u", "l", "l" >>

\* json.dump(value, f): the characters written (the indentation, which
\* json.load skips, is left out).
RECURSIVE Dump(_)
Dump(v) ==
    CASE v.t = "none" -> << "n", "u", "l", "l" >>
      [] v.t = "bool" -> IF v.b THEN << "t", "r", "u", "e" >> ELSE << "f", "a", "l", "s", "e" >>
      [] v.t = "int"  -> Str(v.n)
      [] v.t = "str"  -> Quoted(v.s)
      [] v.t = "list" ->
            << "[" >> \o Join([n \in 1..Len(v.items) |-> Dump(v.items[n])]) \o << "]" >>
      [] v.t = "dict" ->
            << "{" >>
            \o Join([n \in 1..Len(v.items) |->
                        Quoted(KeyText(v.items[n].k)) \o << ":" >> \o Dump(v.items[n].v)])
            \o << "}" >>

\* json.load(f) on a JSON text: a recursive-descent parse.  Each parser is
\* given the text and a position and gives the value and the position after
\* it.
Parsed(v, p) == [v |-> v, p |-> p]

\* The string whose opening quote is before position p.
RECURSIVE ParseString(_, _, _)
ParseString(s, p, acc) ==
    IF s[p] = "\"" THEN Parsed(PyStr(acc), p + 1)
    ELSE IF s[p] = "\\" THEN ParseString(s, p + 2, Append(acc, s[p + 1]))
    ELSE ParseString(s, p + 1, Append(acc, s[p]))

\* The digits from position p on.
RECURSIVE ParseNumber(_, _, _)
ParseNumber(s, p, acc) ==
    IF p <= Len(s) /\ IsDigit(s[p]) THEN ParseNumber(s, p + 1, Append(acc, s[p]))
    ELSE Parsed(PyInt(DigitsValue(acc)), p)

RECURSIVE ParseValue(_, _)
RECURSIVE ParseArray(_, _, _)
RECURSIVE ParseObject(_, _, _)

ParseValue(s, p) ==
    CASE s[p] = "\"" -> ParseString(s, p + 1, << >>)
      [] s[p] = "["  -> ParseArray(s, p + 1, << >>)
      [] s[p] = "{"  -> ParseObject(s, p + 1, PyDict(<< >>))
      [] s[p] = "t"  -> Parsed(PyBool(TRUE), p + 4)
      [] s[p] = "f"  -> Parsed(PyBool(FALSE), p + 5)
      [] s[p] = "n"  -> Parsed(PyNone, p + 4)
      [] OTHER       -> ParseNumber(s, p, << >>)

\* The elements of an array up to its closing bracket.
ParseArray(s, p, acc) ==
    IF s[p] = "]" THEN Parsed(PyList(acc), p + 1)
    ELSE IF s[p] = "," THEN ParseArray(s, p + 1, acc)
    ELSE \* an element
         ParseArray(s, ParseValue(s, p).p, Append(acc, ParseValue(s, p).v))

\* The members of an object up to its closing brace: every key is a string,
\* and a key that occurs again replaces the earlier value.
ParseObject(s, p, acc) ==
    IF s[p] = "}" THEN Parsed(acc, p + 1)
    ELSE IF s[p] = "," THEN ParseObject(s, p + 1, acc)
    ELSE LET key   == ParseString(s, p + 1, << >>)
             value == ParseValue(s, key.p + 1)
         IN  ParseObject(s, value.p, DictSet(acc, key.v, value.v))

Load(s) == ParseValue(s, 1).v

\* The generated objects as the dicts they are, keys in the order the code
\* sets them.
QuestionValue(question) ==
    IF question.t = "dict"
    THEN DictOf(<< Item(Key("type"), question.type), Item(Key("id"), question.id) >>)
    ELSE question

SurveyValue(survey) ==
    DictOf(<< Item(Key("name"), survey.name),
              Item(Key("type"), survey.type),
              Item(Key("questions"),
                   IF survey.questions = Absent THEN Absent
                   ELSE PyList([q \in 1..Len(survey.questions.items) |->
                                   QuestionValue(survey.questions.items[q])])),
              Item(Key("id"), survey.id),
              Item(Key("status"), survey.status) >>)

UserValue(user) ==
    DictOf(<< Item(Key("id"), user.id),
              Item(Key("email"), PyStr(user.email)),
              Item(Key("role"), PyStr(<< user.role >>)) >>)

ResponseValue(response) ==
    DictOf(<< Item(Key("id"), response.id),
              Item(Key("survey_id"), response.survey_id),
              Item(Key("user_id"), response.user_id),
              Item(Key("data"), response.data),
              Item(Key("ttc"), response.ttc) >>)

ListValue(objects, Value(_)) == PyList([k \in 1..Len(objects) |-> Value(objects[k])])

\* _generate_mock_response(survey, user), lines 353-389: one answer per
\* question, stored under the question's id (q{i} if it has none); rating is
\* the rating drawn for the rating questions.
RECURSIVE MockAnswers(_, _, _, _)
MockAnswers(questions, n, rating, response_data) ==
    IF n > Len(questions) THEN response_data
    ELSE LET question == questions[n]
             q_id   == IF question.id = Absent THEN QuestionId(n) ELSE question.id
             q_type == IF question.type = Absent THEN PyStr(<< "openText" >>) ELSE question.type
             answer == CASE q_type = PyStr(<< "rating" >>) -> PyStr(Str(rating))
                         [] q_type = PyStr(<< "multipleChoice" >>) -> PyStr(<< "Option A" >>)
                         [] OTHER -> PyStr(<< "Great service, very satisfied" >>)
         IN  MockAnswers(questions, n + 1, rating, DictSet(response_data, q_id, answer))

GenerateMockResponse(survey, rating) ==
    MockAnswers(IF survey.questions = Absent THEN << >> ELSE survey.questions.items,
                1, rating, PyDict(<< >>))

\* _generate_response_with_llm(survey, user), lines 287-351: the object the
\* backend answered with, or the mock response if anything failed.
GenerateResponseWithLlm(reply, mock) ==
    IF reply.kind = "json" THEN reply.data ELSE mock

\* What the backend answers when asked for a response.
ResponseReplies ==
    { [kind |-> "raise"],
      [kind |-> "json", data |-> PyDict(<< Item(Key("q1"), PyStr(<< "4" >>)) >>)] }

\* The surveys a generative backend can give besides those of BackendReplies:
\* question ids that are numbers, a name with quotes in it.
FileReplies(name) ==
    BackendReplies(name)
    \cup { [kind |-> "json", data |-> JsonSurveyWithIds(name, << PyInt(1), PyInt(2), PyInt(3) >>)],
           [kind |-> "json", data |-> JsonSurvey(<< "The ", "\"", "best", "\"", " survey" >>)] }

\* What generate_surveys returns for n surveys, with three questions in each
\* canned survey.
GeneratedSurveys(n) ==
    { [k \in 1..n |-> WithRequiredFields(choice[k], k - 1)] :
        choice \in [1..n ->
                      UNION { { IF use_openai
                                THEN GenerateSurveyWithLlm(reply,
                                        GenerateMockSurvey(survey_types[a].name, MinQuestions, draw))
                                ELSE GenerateMockSurvey(survey_types[a].name, MinQuestions, draw)
                                : reply \in FileReplies(survey_types[a].name), draw \in TypeDraws }
                              : a \in 1..n }] }

\* Lines 78-97 of generate_command: the three lists as the generator returns
\* them, with one response per survey from the first user.
GenerateData ==
    /\ pc = "generate"
    /\ \E n \in 0..MaxSurveys :
       \E generated \in GeneratedSurveys(n) :
       \E users \in UserLists \ { << >> } :
       \E rating \in { 1, 5 } :
       \E reply \in ResponseReplies :
          /\ gen_surveys' = generated
          /\ gen_users' = users
          /\ gen_responses' =
                [k \in 1..n |->
                    [ id        |-> GeneratedResponse(k, generated[k], users[1]).id,
                      survey_id |-> generated[k].id,
                      user_id   |-> users[1].id,
                      data      |-> IF use_openai
                                    THEN GenerateResponseWithLlm(reply,
                                            GenerateMockResponse(generated[k], rating))
                                    ELSE GenerateMockResponse(generated[k], rating),
                      ttc       |-> PyInt(30 * k) ]]
          /\ response_id' = n + 1
    /\ pc' = "generated"
    /\ UNCHANGED << use_openai, gen_count, gen_i, calls >>
    /\ SeedingUnchanged

\* Lines 99-117 of generate_command: the three json.dump calls, or the return
\* when the directory cannot be made.
SaveGeneratedData ==
    /\ pc = "generated"
    /\ \E ensure_directory \in BOOLEAN :
          IF ensure_directory
          THEN /\ data_files' =
                    [ surveys   |-> PyStr(Dump(ListValue(gen_surveys, SurveyValue))),
                      users     |-> PyStr(Dump(ListValue(gen_users, UserValue))),
                      responses |-> PyStr(Dump(ListValue(gen_responses, ResponseValue))) ]
               /\ pc' = "saved"
          ELSE /\ pc' = "not_saved"
               /\ UNCHANGED data_files
    /\ UNCHANGED << gen_vars, loaded, convert_vars, retry_vars >>
    /\ UNCHANGED << environment_id, surveys_data, i, created_surveys, create_log,
                    responses_in, responses_data, j, survey_mapping,
                    created_responses, response_count, skipped_count,
                    actual_survey_id, cand, submit_log, user_vars, seed_vars,
                    probe_log >>

\* Lines 166-178 of seed_command: the three json.load calls on the files.
LoadGeneratedData ==
    /\ pc = "saved"
    /\ loaded' = [ surveys   |-> Load(data_files.surveys.s),
                   users     |-> Load(data_files.users.s),
                   responses |-> Load(data_files.responses.s) ]
    /\ pc' = "loaded"
    /\ UNCHANGED << gen_vars, data_files, convert_vars, retry_vars >>
    /\ UNCHANGED << environment_id, surveys_data, i, created_surveys, create_log,
                    responses_in, responses_data, j, survey_mapping,
                    created_responses, response_count, skipped_count,
                    actual_survey_id, cand, submit_log, user_vars, seed_vars,
                    probe_log >>

-----------------------------------------------------------------------------
(* create_surveys: the conversion of the questions (lines 117-170) *)

\* key in d
Has(d, k) == \E n \in 1..Len(d.items) : d.items[n].k = k

\* d.get(k, default)
Get(d, k, default) ==
    IF Has(d, k) THEN d.items[CHOOSE n \in 1..Len(d.items) : d.items[n].k = k].v
    ELSE default

\* d.update({...}): the items set one after the other.
RECURSIVE Update(_, _)
Update(d, items) ==
    IF Len(items) = 0 THEN d
    ELSE Update(DictSet(d, items[1].k, items[1].v), Tail(items))

\* {"default": text}
Default(text) == PyDict(<< Item(Key("default"), text) >>)

\* str(value) for the values a choice can be.
PyToStr(value) ==
    CASE value.t = "str"  -> value
      [] value.t = "int"  -> PyStr(Str(value.n))
      [] value.t = "bool" -> PyStr(IF value.b THEN << "True" >> ELSE << "False" >>)
      [] value.t = "none" -> PyStr(<< "None" >>)

\* Lines 151-155: one {id, label} object per choice, in order.
FormattedChoices(choices) ==
    PyList([c \in 1..Len(choices.items) |->
               PyDict(<< Item(Key("id"), PyStr(<< "choice_" >> \o Str(c))),
                         Item(Key("label"), Default(PyToStr(choices.items[c]))) >>)])

\* Lines 120-127: the fields every converted question has.
BaseQuestion(q, n) ==
    PyDict(<< Item(Key("id"), Get(q, Key("id"), PyStr(<< "question" >> \o Str(n)))),
              Item(Key("type"), Get(q, Key("type"), PyStr(<< "openText" >>))),
              Item(Key("headline"),
                   Default(Get(q, Key("headline"), PyStr(<< "Question " >> \o Str(n))))),
              Item(Key("required"), Get(q, Key("required"), PyBool(FALSE))),
              Item(Key("isDraft"), PyBool(FALSE)),
              Item(Key("logic"), PyList(<< >>)) >>)

\* Lines 120-168: the converted question for the n-th input question q.  The
\* type-specific fields go by q.get("type"), which is None for a question
\* without type.
ConvertQuestion(q, n) ==
    LET question == BaseQuestion(q, n)
        q_type   == Get(q, Key("type"), PyNone)
    IN  CASE q_type = PyStr(<< "rating" >>) ->
               Update(question,
                  << Item(Key("scale"), PyStr(<< "number" >>)),
                     Item(Key("range"), Get(q, Key("range"), PyInt(5))),
                     Item(Key("labels"),
                          PyDict(<< Item(Key("left"),
                                         Default(Get(Get(q, Key("labels"), PyDict(<< >>)),
                                                     Key("left"), PyStr(<< "Poor" >>)))),
                                    Item(Key("right"),
                                         Default(Get(Get(q, Key("labels"), PyDict(<< >>)),
                                                     Key("right"), PyStr(<< "Excellent" >>)))),
                                    Item(Key("center"), Default(PyStr(<< >>))) >>)) >>)
          [] q_type = PyStr(<< "multipleChoice" >>) ->
               Update(DictSet(question, Key("type"), PyStr(<< "multipleChoiceMulti" >>)),
                  << Item(Key("choices"),
                          FormattedChoices(Get(q, Key("choices"),
                                               PyList(<< PyStr(<< "Option 1" >>),
                                                         PyStr(<< "Option 2" >>) >>)))),
                     Item(Key("multiSelect"), PyBool(FALSE)),
                     Item(Key("shuffleOption"), PyStr(<< "none" >>)) >>)
          [] q_type = PyStr(<< "openText" >>) ->
               Update(question,
                  << Item(Key("placeholder"), Default(Get(q, Key("placeholder"), PyStr(<< >>)))),
                     Item(Key("longAnswer"), PyBool(FALSE)),
                     Item(Key("inputType"), PyStr(<< "text" >>)) >>)
          [] OTHER -> question

\* The questions of the input surveys: of each type, with and without the
\* optional keys, without type, without id, of a type the code does not know.
InputQuestions ==
    { PyDict(<< Item(Key("type"), PyStr(<< "rating" >>)),
                Item(Key("headline"), PyStr(<< "Rate the quality" >>)),
                Item(Key("required"), PyBool(TRUE)),
                Item(Key("range"), PyInt(7)),
                Item(Key("labels"), PyDict(<< Item(Key("left"), PyStr(<< "Poor" >>)),
                                              Item(Key("right"), PyStr(<< "Great" >>)) >>)),
                Item(Key("id"), PyStr(<< "q", "1" >>)) >>),
      PyDict(<< Item(Key("type"), PyStr(<< "rating" >>)),
                Item(Key("id"), PyStr(<< "q", "2" >>)) >>),
      PyDict(<< Item(Key("type"), PyStr(<< "multipleChoice" >>)),
                Item(Key("headline"), PyStr(<< "Your role?" >>)),
                Item(Key("choices"), PyList(<< PyStr(<< "Manager" >>), PyInt(7),
                                               PyStr(<< "Director" >>) >>)),
                Item(Key("id"), PyStr(<< "q", "3" >>)) >>),
      PyDict(<< Item(Key("type"), PyStr(<< "multipleChoice" >>)) >>),
      PyDict(<< Item(Key("type"), PyStr(<< "openText" >>)),
                Item(Key("headline"), PyStr(<< "What can we improve?" >>)),
                Item(Key("placeholder"), PyStr(<< "Your suggestions..." >>)),
                Item(Key("id"), PyStr(<< "q", "4" >>)) >>),
      PyDict(<< Item(Key("type"), PyStr(<< "openText" >>)) >>),
      PyDict(<< Item(Key("headline"), PyStr(<< "Anything else?" >>)),
                Item(Key("id"), PyStr(<< "q", "5" >>)) >>),
      PyDict(<< Item(Key("type"), PyStr(<< "text" >>)),
                Item(Key("id"), PyStr(<< "q", "6" >>)) >>) }

\* The number of questions of an input survey.
MaxInputQuestions == 2

InputSurveys ==
    UNION { { PyDict(<< Item(Key("name"), PyStr(<< "n1" >>)),
                        Item(Key("questions"), PyList(qs)) >>)
                : qs \in [1..n -> InputQuestions] } : n \in 0..MaxInputQuestions }
    \cup { PyDict(<< Item(Key("name"), PyStr(<< "n1" >>)) >>) }

\* The iteration of create_surveys starts on a survey (lines 112-118).
ConvertCall ==
    /\ pc = "convert"
    /\ \E survey_data \in InputSurveys : surveys_data' = << survey_data >>
    /\ api_questions' = << >>
    /\ q_idx' = 1
    /\ pc' = "convert_loop"
    /\ UNCHANGED << environment_id, i, created_surveys, create_log,
                    responses_in, responses_data, j, survey_mapping,
                    created_responses, response_count, skipped_count,
                    actual_survey_id, cand, submit_log, user_vars, seed_vars,
                    probe_log, gen_vars, file_vars, retry_vars >>

\* One iteration of the loop over the questions (lines 119-170), or its end.
ConvertNext ==
    /\ pc = "convert_loop"
    /\ \E input \in { Get(surveys_data[1], Key("questions"), PyList(<< >>)).items } :
          IF q_idx <= Len(input)
          THEN /\ api_questions' = Append(api_questions, ConvertQuestion(input[q_idx], q_idx))
               /\ q_idx' = q_idx + 1
               /\ UNCHANGED pc
          ELSE /\ pc' = "converted"
               /\ UNCHANGED << api_questions, q_idx >>
    /\ UNCHANGED << environment_id, surveys_data, i, created_surveys, create_log,
                    responses_in, responses_data, j, survey_mapping,
                    created_responses, response_count, skipped_count,
                    actual_survey_id, cand, submit_log, user_vars, seed_vars,
                    probe_log, gen_vars, file_vars, retry_vars >>

-----------------------------------------------------------------------------
(* utils.py: retry_operation *)

\* The largest max_retries and the largest delay (in seconds) passed.
MaxRetries == 3
MaxDelay == 2

\* The arguments: max_retries is an int (0 and negative included), delay a
\* duration.
RetryValues == (0 - 1)..MaxRetries
DelayValues == 0..MaxDelay

\* What one call of operation does: it returns a value or raises an error.
OperationOutcomes ==
    { [kind |-> "return", value |-> v] : v \in { "r1", "r2" } }
    \cup { [kind |-> "raise", value |-> e] : e \in { "ConnectionError", "Timeout" } }

\* A constant wait instead of the exponential one.
BackoffConstant(d, k) == d

\* delay * (2 ** attempt)
Backoff(d, k) == d * 2^k

\* retry_operation is called: range(max_retries) is entered, or is empty and
\* the function falls off its end (it returns None).
RetryOperationCall ==
    /\ pc = "retry"
    /\ \E m \in RetryValues, d \in DelayValues :
          /\ max_retries' = m
          /\ delay' = d
          /\ IF m > 0
             THEN /\ pc' = "retry_loop"
                  /\ retry_result' = PyNone
             ELSE /\ pc' = "retry_returned"
                  /\ retry_result' = [kind |-> "return", value |-> "None"]
    /\ attempt' = 0
    /\ op_log' = << >>
    /\ sleep_log' = << >>
    /\ UNCHANGED << environment_id, surveys_data, i, created_surveys, create_log,
                    responses_in, responses_data, j, survey_mapping,
                    created_responses, response_count, skipped_count,
                    actual_survey_id, cand, submit_log, user_vars, seed_vars,
                    probe_log, gen_vars, file_vars, convert_vars >>

\* One iteration of the loop (lines 182-189): the operation is called; its
\* result is returned, or its error is raised again on the last attempt, or
\* the function sleeps and goes on with the next attempt (and falls off the
\* end of the loop when there is none).
RetryAttempt ==
    /\ pc = "retry_loop"
    /\ \E outcome \in OperationOutcomes :
          /\ op_log' = Append(op_log, outcome)
          /\ IF outcome.kind = "return"
             THEN /\ retry_result' = outcome
                  /\ pc' = "retry_returned"
                  /\ UNCHANGED << attempt, sleep_log >>
             ELSE IF attempt = max_retries - 1
             THEN /\ retry_result' = outcome
                  /\ pc' = "retry_raised"
                  /\ UNCHANGED << attempt, sleep_log >>
             ELSE /\ sleep_log' = Append(sleep_log, Backoff(delay, attempt))
                  /\ attempt' = attempt + 1
                  /\ IF attempt + 1 < max_retries
                     THEN /\ UNCHANGED pc
                          /\ retry_result' = PyNone
                     ELSE /\ pc' = "retry_returned"
                          /\ retry_result' = [kind |-> "return", value |-> "None"]
    /\ UNCHANGED << max_retries, delay >>
    /\ UNCHANGED << environment_id, surveys_data, i, created_surveys, create_log,
                    responses_in, responses_data, j, survey_mapping,
                    created_responses, response_count, skipped_count,
                    actual_survey_id, cand, submit_log, user_vars, seed_vars,
                    probe_log, gen_vars, file_vars, convert_vars >>

-----------------------------------------------------------------------------
(* The run *)

\* The seeding state before create_surveys is called.
NothingSeeded ==
    /\ surveys_data = << >>
    /\ i = 1
    /\ created_surveys = << >>
    /\ create_log = << >>
    /\ responses_in = << >>
    /\ responses_data = << >>
    /\ j = 1
    /\ survey_mapping = EmptyMapping
    /\ created_responses = << >>
    /\ response_count = 0
    /\ skipped_count = 0
    /\ actual_survey_id = PyNone
    /\ cand = FirstCandidate
    /\ submit_log = << >>
    /\ users_in = << >>
    /\ users_data = << >>
    /\ prepared_users = << >>
    /\ probe_log = << >>
    /\ results = PyNone
    /\ results_file = PyNone
    /\ data_files = [surveys |-> Absent, users |-> Absent, responses |-> Absent]
    /\ loaded = PyNone
    /\ q_idx = 1
    /\ api_questions = << >>
    /\ max_retries = 3
    /\ delay = 1
    /\ attempt = 0
    /\ op_log = << >>
    /\ sleep_log = << >>
    /\ retry_result = PyNone

\* No DataGenerator method has been called.
NothingGenerated ==
    /\ use_openai = FALSE
    /\ gen_count = 0
    /\ gen_i = 0
    /\ calls = << >>
    /\ gen_surveys = << >>
    /\ gen_users = << >>
    /\ gen_responses = << >>
    /\ response_id = 1

\* The seeder is constructed (URL and API key set, no environment id
\* configured) and test_connection has returned True.
Init ==
    /\ pc = "start"
    /\ environ = Environ(PyStr(<< "http://localhost:3000" >>), PyStr(<< "k" >>), PyNone)
    /\ environment_id = GetEnvironmentId(PyNone)
    /\ api_available = PyBool(TRUE)
    /\ NothingSeeded
    /\ NothingGenerated

Next ==
    \/ CreateSurveysCall
    \/ CreateSurvey
    \/ CreateUsers
    \/ SubmitResponsesCall
    \/ ResolveResponse
    \/ SubmitAttempt

Spec == Init /\ [][Next]_vars

\* The seeding calls are sequential code and every request has a timeout:
\* whenever a step is possible, a step is taken.
SpecFair == Init /\ [][Next]_vars /\ WF_vars(Next)

\* The seed action from its start, for every setting of the URL and the API
\* key (no environment id configured).
InitSeed ==
    /\ pc = "main"
    /\ environ \in { Environ(url, key, PyNone) : url \in UrlValues, key \in KeyValues }
    /\ environment_id = PyNone
    /\ api_available = PyNone
    /\ NothingSeeded
    /\ NothingGenerated

NextSeed ==
    \/ FormbricksMain
    \/ LoadData
    \/ Construct
    \/ TestConnection
    \/ Simulate
    \/ Next
    \/ EmitResults

SpecSeed == InitSeed /\ [][NextSeed]_vars

\* The seed action is one sequential program and every request has a timeout:
\* whenever a step is possible, a step is taken.
SpecSeedFair == InitSeed /\ [][NextSeed]_vars /\ WF_vars(NextSeed)

\* The seed action up to the end of create_surveys, for every setting of the
\* three variables.
InitEnv ==
    /\ pc = "main"
    /\ environ \in { Environ(url, key, env_id) :
                        url \in UrlValues, key \in KeyValues, env_id \in EnvValues }
    /\ environment_id = PyNone
    /\ api_available = PyNone
    /\ NothingSeeded
    /\ NothingGenerated

NextEnv ==
    \/ FormbricksMain
    \/ LoadData
    \/ Construct
    \/ TestConnection
    \/ CreateSurveysCall
    \/ CreateSurvey

SpecEnv == InitEnv /\ [][NextEnv]_vars

\* create_surveys and what follows it, called on a seeder whose environment_id
\* is absent (None or empty): the case lines 106-108 of create_surveys handle.
\* __init__ itself never leaves the identifier absent.
InitDegraded ==
    /\ pc = "start"
    /\ environ = Environ(PyStr(<< "http://localhost:3000" >>), PyStr(<< "k" >>), PyNone)
    /\ environment_id \in { PyNone, PyStr(<< >>) }
    /\ api_available = PyBool(TRUE)
    /\ NothingSeeded
    /\ NothingGenerated

NextDegraded ==
    \/ CreateSurveysCall
    \/ CreateUsers
    \/ SubmitResponsesCall
    \/ EmitResults

SpecDegraded == InitDegraded /\ [][NextDegraded]_vars

\* generate_surveys on a DataGenerator as __init__ leaves it: use_openai is
\* True only if OPENAI_API_KEY is set and the openai package could be set up.
InitSurveys ==
    /\ pc = "generate_surveys"
    /\ environ = Environ(PyNone, PyNone, PyNone)
    /\ environment_id = PyNone
    /\ api_available = PyNone
    /\ NothingSeeded
    /\ use_openai \in BOOLEAN
    /\ gen_count = 0
    /\ gen_i = 0
    /\ calls = << >>
    /\ gen_surveys = << >>
    /\ gen_users = << >>
    /\ gen_responses = << >>
    /\ response_id = 1

NextSurveys ==
    \/ GenerateSurveysCall
    \/ GenerateSurvey

SpecSurveys == InitSurveys /\ [][NextSurveys]_vars

\* generate_users on any DataGenerator.
InitUsers ==
    /\ pc = "generate_users"
    /\ environ = Environ(PyNone, PyNone, PyNone)
    /\ environment_id = PyNone
    /\ api_available = PyNone
    /\ NothingSeeded
    /\ use_openai \in BOOLEAN
    /\ gen_count = 0
    /\ gen_i = 0
    /\ calls = << >>
    /\ gen_surveys = << >>
    /\ gen_users = << >>
    /\ gen_responses = << >>
    /\ response_id = 1

NextUsers == GenerateUsers

SpecUsers == InitUsers /\ [][NextUsers]_vars

\* generate_responses on the canned path, for every survey list of SurveyLists
\* and every user list of RespondentLists.
InitResponses ==
    /\ pc = "generate_responses"
    /\ environ = Environ(PyNone, PyNone, PyNone)
    /\ environment_id = PyNone
    /\ api_available = PyNone
    /\ NothingSeeded
    /\ use_openai = FALSE
    /\ gen_count = 0
    /\ gen_i = 0
    /\ calls = << >>
    /\ gen_surveys \in SurveyLists
    /\ gen_users \in RespondentLists
    /\ gen_responses = << >>
    /\ response_id = 1

NextResponses ==
    \/ GenerateResponsesCall
    \/ GenerateResponsesFor

SpecResponses == InitResponses /\ [][NextResponses]_vars

\* The generate action followed by the load of the seed action.
InitFiles ==
    /\ pc = "generate"
    /\ environ = Environ(PyNone, PyNone, PyNone)
    /\ environment_id = PyNone
    /\ api_available = PyNone
    /\ NothingSeeded
    /\ use_openai \in BOOLEAN
    /\ gen_count = 0
    /\ gen_i = 0
    /\ calls = << >>
    /\ gen_surveys = << >>
    /\ gen_users = << >>
    /\ gen_responses = << >>
    /\ response_id = 1

NextFiles ==
    \/ GenerateData
    \/ SaveGeneratedData
    \/ LoadGeneratedData

SpecFiles == InitFiles /\ [][NextFiles]_vars

\* The question conversion of create_surveys, for every survey of
\* InputSurveys.
InitConvert ==
    /\ pc = "convert"
    /\ environ = Environ(PyStr(<< "http://localhost:3000" >>), PyStr(<< "k" >>), PyNone)
    /\ environment_id = GetEnvironmentId(PyNone)
    /\ api_available = PyBool(TRUE)
    /\ NothingSeeded
    /\ NothingGenerated

NextConvert ==
    \/ ConvertCall
    \/ ConvertNext

SpecConvert == InitConvert /\ [][NextConvert]_vars

\* retry_operation, for every max_retries of RetryValues, every delay of
\* DelayValues and every outcome of every call of the operation.
InitRetry ==
    /\ pc = "retry"
    /\ environ = Environ(PyStr(<< "http://localhost:3000" >>), PyStr(<< "k" >>), PyNone)
    /\ environment_id = GetEnvironmentId(PyNone)
    /\ api_available = PyNone
    /\ NothingSeeded
    /\ NothingGenerated

NextRetry ==
    \/ RetryOperationCall
    \/ RetryAttempt

SpecRetry == InitRetry /\ [][NextRetry]_vars

-----------------------------------------------------------------------------
(* Properties *)

\* The string "survey_k" written out (k below ten).
ExpectedKey(k) == PyStr(<< "s", "u", "r", "v", "e", "y", "_", Digits[k + 1] >>)

CreateReturned == pc \in { "created", "prepared", "submit_loop", "submit_try", "done" }

InSubmit == pc \in { "submit_loop", "submit_try", "done" }

\* The last response is processed and no request for a further one is pending.
ResponseFinished == pc \in { "submit_loop", "done" }

\* The create-survey request of the survey processed last failed.
CreateFailed(out) == out.kind = "exception" \/ out.status \notin { 200, 201 }

IsSynthetic(id) ==
    /\ id.t = "str"
    /\ \/ StartsWith(id.s, << "m", "o", "c", "k", "_", "s", "u", "r", "v", "e", "y", "_" >>)
       \/ StartsWith(id.s, << "e", "r", "r", "o", "r", "_", "s", "u", "r", "v", "e", "y", "_" >>)

AllDigits(s) == Len(s) > 0 /\ \A k \in 1..Len(s) : IsDigit(s[k])

\* A survey reference matches a successful entry by generated id or by position
\* (the number after "survey_").
Matches(ref, entry) ==
    /\ entry.api_success
    /\ \/ ref = entry.generated_id
       \/ /\ ref.t = "str"
          /\ StartsWith(ref.s, SurveyPrefix)
          /\ AllDigits(SubSeq(ref.s, Len(SurveyPrefix) + 1, Len(ref.s)))
          /\ DigitsValue(SubSeq(ref.s, Len(SurveyPrefix) + 1, Len(ref.s))) = entry.position

Unresolvable(ref) ==
    \A k \in 1..Len(created_surveys) : ~Matches(ref, created_surveys[k])

Returned(k) == \E m \in 1..Len(created_responses) : created_responses[m] = k

MarkedUnsubmitted(r) == r.submitted = PyBool(FALSE) /\ r.api_success = PyBool(FALSE)

\* Position of an endpoint/shape combination in the order E1 primary, E1 alt,
\* E2 primary, E2 alt.
Combination(entry) ==
    2 * ((CHOOSE e \in 1..Len(Endpoints) : Endpoints[e] = entry.endpoint) - 1)
    + (IF entry.shape = "primary" THEN 1 ELSE 2)

AcceptedAnswer(out) == out.kind = "response" /\ out.status \in { 200, 201 }

RejectedAnswer(out) == out.kind = "response" /\ out.status \notin { 200, 201 }

\* The remote system rejected the request: it answered with a non-2xx status.
RemoteRejected(out) == out.kind = "response" /\ ~Is2xx(out.status)

\* C1: create_surveys returns exactly one entry per input survey; the k-th entry
\* carries the name of the k-th input survey, position k and generated_id
\* "survey_k", whether the survey was created or not.
C1_OneEntryPerSurvey ==
    /\ pc = "create_loop" => Len(created_surveys) = i - 1
    /\ CreateReturned => Len(created_surveys) = Len(surveys_data)
    /\ \A k \in 1..Len(created_surveys) :
          /\ created_surveys[k].name = surveys_data[k].name
          /\ created_surveys[k].position = k
          /\ created_surveys[k].generated_id = ExpectedKey(k)

C1_Witness ==
    /\ pc = "created"
    /\ Len(surveys_data) = 2
    /\ \E a, b \in 1..Len(created_surveys) :
          created_surveys[a].api_success /\ ~created_surveys[b].api_success

\* C2: submit_responses never drops a response: when it returns, the returned
\* list holds every input response exactly once, in input order, each with a
\* submitted flag.
C2_NoResponseDropped ==
    pc = "done" =>
        /\ created_responses = [k \in 1..Len(responses_in) |-> k]
        /\ \A k \in 1..Len(responses_in) :
              /\ responses_data[k].survey_id = responses_in[k].survey_id
              /\ responses_data[k].submitted \in { PyBool(TRUE), PyBool(FALSE) }

\* C3: a processed response whose survey reference matches no successful mapping
\* entry, by generated id or by position, is in the returned list with
\* submitted = false and api_success = false, and no request was sent for it.
C3_UnresolvedMarkedUnsubmitted ==
    InSubmit =>
        \A k \in 1..(j - 1) :
            (k <= Len(responses_in) /\ Unresolvable(responses_in[k].survey_id)) =>
                /\ Returned(k)
                /\ MarkedUnsubmitted(responses_data[k])
                /\ (k = j - 1 /\ ResponseFinished) => submit_log = << >>

\* C4: if no mapping entry has api_success true, no submission request is sent
\* and every input response is returned with submitted = false and
\* api_success = false.
C4_NoSurveyNoSubmission ==
    (InSubmit /\ \A k \in 1..Len(created_surveys) : ~created_surveys[k].api_success) =>
        /\ pc = "done"
        /\ submit_log = << >>
        /\ response_count = 0
        /\ created_responses = [k \in 1..Len(responses_in) |-> k]
        /\ \A k \in 1..Len(responses_in) : MarkedUnsubmitted(responses_data[k])

C4_Witness ==
    /\ pc = "done"
    /\ Len(created_surveys) = 2
    /\ \A k \in 1..Len(created_surveys) : ~created_surveys[k].api_success
    /\ Len(responses_in) = 2
    /\ responses_in[1].survey_id = PyStr(SurveyKey(1))
    /\ responses_in[2].survey_id = PyInt(7)

\* C5: a response recorded as submitted was sent to the remote survey of the
\* input survey it references: when its survey reference is the local id of an
\* input survey, its api_survey_id is not the id the remote system assigned to
\* an input survey with another local id.
C5_SubmittedToOwnSurvey ==
    \A k \in 1..Len(responses_data) :
        (/\ responses_data[k].submitted = PyBool(TRUE)
         /\ \E n \in 1..Len(surveys_data) :
                surveys_data[n].id = responses_in[k].survey_id) =>
            \A m \in 1..Len(surveys_data) :
                responses_data[k].api_survey_id = RemoteId(m) =>
                    surveys_data[m].id = responses_in[k].survey_id

\* C6: the requests for one response are sent in the order E1 primary, E1 alt,
\* E2 primary, E2 alt, starting with E1 primary; an alternate payload is sent
\* only right after the primary payload was rejected by the same endpoint; and
\* no request follows an accepted one.
C6_FixedAttemptOrder ==
    /\ Len(submit_log) > 0 => Combination(submit_log[1]) = 1
    /\ \A k \in 1..Len(submit_log) :
          /\ k > 1 => Combination(submit_log[k - 1]) < Combination(submit_log[k])
          /\ submit_log[k].shape = "alt" =>
                /\ k > 1
                /\ submit_log[k - 1].endpoint = submit_log[k].endpoint
                /\ submit_log[k - 1].shape = "primary"
                /\ RejectedAnswer(submit_log[k - 1].outcome)
          /\ AcceptedAnswer(submit_log[k].outcome) =>
                k = Len(submit_log) /\ pc # "submit_try"

C6_Witness ==
    /\ Len(submit_log) = 4
    /\ AcceptedAnswer(submit_log[4].outcome)

\* C7: when the last request sent for a response was accepted, the response is
\* returned with submitted = true and api_success = true and endpoint_used
\* names the endpoint and the shape of that request; otherwise it carries no
\* endpoint_used.
C7_EndpointUsedNamesAcceptor ==
    (ResponseFinished /\ Len(submit_log) > 0) =>
        LET last == submit_log[Len(submit_log)]
            r    == responses_data[j - 1]
        IN  IF AcceptedAnswer(last.outcome)
            THEN /\ Returned(j - 1)
                 /\ r.submitted = PyBool(TRUE)
                 /\ r.api_success = PyBool(TRUE)
                 /\ r.endpoint_used =
                        PyStr(IF last.shape = "primary" THEN last.endpoint
                              ELSE last.endpoint \o << " (alt format)" >>)
            ELSE /\ r.submitted = PyBool(FALSE)
                 /\ r.endpoint_used = Absent

C7_Witness ==
    /\ ResponseFinished
    /\ Len(submit_log) = 2
    /\ Combination(submit_log[1]) = 1
    /\ RejectedAnswer(submit_log[1].outcome)
    /\ Combination(submit_log[2]) = 2
    /\ AcceptedAnswer(submit_log[2].outcome)
    /\ responses_data[j - 1].submitted = PyBool(TRUE)

\* C8: a resolved response is recorded as unsubmitted only after all four
\* endpoint/shape combinations have been attempted.
C8_UnsubmittedOnlyAfterAllFour ==
    (/\ ResponseFinished
     /\ Len(submit_log) > 0
     /\ responses_data[j - 1].submitted = PyBool(FALSE)) =>
        Len(submit_log) = 2 * Len(Endpoints)

C10_FailureDoesNotAbort ==
    (pc \in { "create_loop", "created" } /\ Len(create_log) > 0) =>
        LET out == create_log[1].outcome
            k   == i - 1
        IN  CreateFailed(out) =>
                /\ Len(created_surveys) = k
                /\ ~created_surveys[k].api_success
                /\ created_surveys[k].position = k
                /\ created_surveys[k].name = surveys_data[k].name
                /\ IsSynthetic(created_surveys[k].id)
                /\ pc = (IF k < Len(surveys_data) THEN "create_loop" ELSE "created")

C10_Witness ==
    /\ pc = "created"
    /\ Len(created_surveys) = 2
    /\ ~created_surveys[1].api_success
    /\ IsSynthetic(created_surveys[1].id)
    /\ created_surveys[2].api_success

\* C11: the seeding operations do not mutate their inputs: when create_users
\* has returned every user object is as it was at the call, and when
\* submit_responses has returned every response object is as it was at the
\* call (the outcome fields are on copies only).
C11_InputsNotMutated ==
    /\ pc = "prepared" => users_data = users_in
    /\ pc = "done" => responses_data = responses_in

\* The entry is the one the rejected-status branch of create_surveys appends.
RecordedAsRejected(entry) == entry.id.t = "str" /\ StartsWith(entry.id.s, MockPrefix)

\* C12: only the 2xx statuses decide acceptance. A create-survey request
\* answered with any 2xx status is treated as accepted (its survey is not
\* recorded as rejected), and one answered with another status leaves a failure
\* entry and the loop goes on; a submission answered with any 2xx status ends
\* the attempts for its response, which is returned as submitted, and one
\* answered with another status is followed by the next attempt or by the
\* response being returned as unsubmitted.
C12_Every2xxAccepted ==
    /\ (pc \in { "create_loop", "created", "prepared" } /\ Len(create_log) > 0) =>
          LET out   == create_log[1].outcome
              entry == created_surveys[i - 1]
          IN  out.kind = "response" =>
                 /\ Len(created_surveys) = i - 1
                 /\ Is2xx(out.status) => ~RecordedAsRejected(entry)
                 /\ ~Is2xx(out.status) => ~entry.api_success
    /\ \A k \in 1..Len(submit_log) :
          LET out == submit_log[k].outcome
          IN  out.kind = "response" =>
                 /\ Is2xx(out.status) =>
                       /\ k = Len(submit_log)
                       /\ ResponseFinished
                       /\ responses_data[j - 1].submitted = PyBool(TRUE)
                 /\ (~Is2xx(out.status) /\ k = Len(submit_log)) =>
                       \/ pc = "submit_try"
                       \/ /\ Returned(j - 1)
                          /\ responses_data[j - 1].submitted = PyBool(FALSE)

\* The seeder has been constructed (and, in SpecEnv, the run got no further
\* than create_surveys).
Constructed == pc \in { "test_connection", "start", "create_loop", "created" }

\* C13: the environment discoverer returns the configured identifier when
\* FORMBRICKS_ENVIRONMENT_ID is set and non-empty and the hardcoded constant
\* otherwise; the identifier is never absent; constructing the seeder sends no
\* request; and create_surveys sends that identifier.
C13_EnvironmentIdResolved ==
    Constructed =>
        LET configured == environ.FORMBRICKS_ENVIRONMENT_ID
            expected   == IF configured.t = "str" /\ Len(configured.s) > 0
                          THEN configured
                          ELSE PyStr(<< "c", "m", "j" >>)
        IN  /\ environment_id = expected
            /\ environment_id.t = "str" /\ Len(environment_id.s) > 0
            /\ pc = "test_connection" =>
                  probe_log = << >> /\ create_log = << >> /\ submit_log = << >>
            /\ Len(create_log) > 0 =>
                  create_log[1].payload.environmentId = expected

C13_Witness ==
    /\ pc = "created"
    /\ environ.FORMBRICKS_ENVIRONMENT_ID = PyStr(<< >>)
    /\ environment_id = PyStr(<< "c", "m", "j" >>)
    /\ Len(create_log) = 1

\* C14: when environment_id is absent as create_surveys is called, no
\* create-survey request is sent; create_surveys returns one mock entry per
\* input survey, in order, with api_success false, position k and generated_id
\* "survey_k"; the run goes on, and every response is returned unsubmitted.
C14_AbsentIdentifierGivesMocks ==
    ~Truthy(environment_id) =>
        /\ pc # "create_loop"
        /\ create_log = << >>
        /\ submit_log = << >>
        /\ pc \in { "created", "prepared", "done" } =>
              /\ Len(created_surveys) = Len(surveys_data)
              /\ \A k \in 1..Len(surveys_data) :
                    /\ ~created_surveys[k].api_success
                    /\ created_surveys[k].name = surveys_data[k].name
                    /\ created_surveys[k].position = k
                    /\ created_surveys[k].generated_id = ExpectedKey(k)
                    /\ IsSynthetic(created_surveys[k].id)
        /\ pc = "done" =>
              /\ created_responses = [k \in 1..Len(responses_in) |-> k]
              /\ \A k \in 1..Len(responses_in) : MarkedUnsubmitted(responses_data[k])
        /\ pc = "finished" =>
              /\ results.api_available
              /\ results.surveys_created_via_api = 0
              /\ results.responses_submitted_via_api = 0

C14_Witness ==
    /\ pc = "done"
    /\ environment_id = PyNone
    /\ Len(surveys_data) = 2
    /\ Len(created_surveys) = 2
    /\ Len(responses_in) = 2
    /\ responses_in[1].survey_id = PyStr(SurveyKey(1))
    /\ responses_data[1].submitted = PyBool(FALSE)

\* C15: when FORMBRICKS_API_KEY is missing (unset or empty) the seed action
\* fails at once: it never gets past the validation in main (exit), no
\* generated data is read, no request is sent, no simulated run is made and
\* no results object or results file is produced.
C15_MissingKeyFailsImmediately ==
    ~Truthy(environ.FORMBRICKS_API_KEY) =>
        /\ pc \in { "main", "exit" }
        /\ surveys_data = << >> /\ users_data = << >> /\ responses_data = << >>
        /\ probe_log = << >> /\ create_log = << >> /\ submit_log = << >>
        /\ api_available = PyNone
        /\ results = PyNone
        /\ results_file = PyNone

C15_Witness ==
    /\ pc = "exit"
    /\ environ.FORMBRICKS_API_KEY = PyNone
    /\ Truthy(environ.FORMBRICKS_URL)

\* The run has ended inside seed_command (not by the exit of main).
SeedCommandEnded == pc \in { "returned", "finished" }

\* No survey was created through the API (as under total unavailability, where
\* every request raises or is rejected).
NothingCreated == \A k \in 1..Len(created_surveys) : ~created_surveys[k].api_success

\* C16 as stated: every seed run that starts with a valid configuration ends
\* with a results object.
C16_ValidRunEmitsResults ==
    (ValidateEnvironment(environ) /\ SeedCommandEnded) => results # PyNone

\* C16 as amended: every seed run that starts with a valid configuration and
\* has loaded the generated data eventually finishes with a results object,
\* whatever the remote system answers; and when the API was judged unavailable
\* or no survey was created through it, the results record zero surveys
\* created and zero responses submitted.
C16_LoadedRunEmitsResults ==
    /\ (pc = "construct") ~> (pc = "finished" /\ results # PyNone)
    /\ [][pc' = "finished" =>
            /\ results' # PyNone
            /\ (api_available = PyBool(FALSE) \/ NothingCreated) =>
                  /\ results'.surveys_created_via_api = 0
                  /\ results'.responses_submitted_via_api = 0]_vars

C16_Witness ==
    /\ pc = "finished"
    /\ results # PyNone
    /\ results.api_available
    /\ results.surveys_generated = 2
    /\ results.responses_generated = 2
    /\ results.surveys_created_via_api = 0
    /\ results.responses_submitted_via_api = 0

\* generate_surveys has returned.
SurveysReturned == pc = "surveys_returned"

\* C17: generate_surveys(count) returns exactly min(count, 5) surveys, none
\* for count <= 0; the k-th was generated from the k-th archetype of the table
\* (the generator was called with its name and context, and the canned path
\* gives the survey that name) and has local id "survey_k" and status
\* "inProgress", on the canned and on the generative path alike.
C17_GenerateSurveysShape ==
    SurveysReturned =>
        /\ Len(gen_surveys) = IF gen_count <= 0 THEN 0 ELSE Min(gen_count, 5)
        /\ Len(calls) = Len(gen_surveys)
        /\ \A k \in 1..Len(gen_surveys) :
              /\ gen_surveys[k].id = ExpectedKey(k)
              /\ gen_surveys[k].status = PyStr(<< "inProgress" >>)
              /\ calls[k].name = survey_types[k].name
              /\ calls[k].context = survey_types[k].context
              /\ ~use_openai => gen_surveys[k].name = PyStr(survey_types[k].name)

\* A call asking for more surveys than there are archetypes has returned five,
\* one taken from the backend's answer as it came and one from the canned path.
C17_Witness ==
    /\ SurveysReturned
    /\ use_openai
    /\ gen_count = 6
    /\ Len(gen_surveys) = 5
    /\ gen_surveys[5].name = Absent
    /\ gen_surveys[4].questions.t = "list"
    /\ Len(gen_surveys[4].questions.items) = 5
    /\ gen_surveys[4].name = PyStr(survey_types[4].name)
    /\ gen_surveys[5].id = ExpectedKey(5)

\* f"user_{k}" written out.
ExpectedUserId(k) == PyStr(<< "u", "s", "e", "r", "_" >> \o Str(k))

\* The number of users of the list with the given role.
RoleCount(users, role) == Cardinality({ k \in 1..Len(users) : users[k].role = role })

\* C18: generate_users(M) returns exactly M users with local ids
\* user_1..user_M in order; the first min(M, 2) are owners and all others are
\* managers, so that 10 users are 2 owners and 8 managers.
C18_GenerateUsersShape ==
    pc = "users_returned" =>
        /\ Len(gen_users) = gen_count
        /\ \A k \in 1..Len(gen_users) :
              /\ gen_users[k].id = ExpectedUserId(k)
              /\ gen_users[k].role = IF k <= 2 THEN "owner" ELSE "manager"
        /\ RoleCount(gen_users, "owner") = Min(gen_count, 2)
        /\ RoleCount(gen_users, "manager") = gen_count - Min(gen_count, 2)
        /\ gen_count = 10 =>
              /\ RoleCount(gen_users, "owner") = 2
              /\ RoleCount(gen_users, "manager") = 8

\* Ten users have been generated.
C18_Witness ==
    /\ pc = "users_returned"
    /\ gen_count = 10
    /\ Len(gen_users) = 10
    /\ gen_users[2].role = "owner"
    /\ gen_users[3].role = "manager"

\* generate_responses has ended, by returning or by raising.
ResponsesEnded == pc \in { "responses_returned", "responses_raised" }

\* The positions of the generated responses that belong to the survey.
ResponsesOf(survey) ==
    { k \in 1..Len(gen_responses) : gen_responses[k].survey_id = survey.id }

\* What the responses generated so far look like: one to three per processed
\* survey and from different users, each referring to an input survey and an
\* input user, numbered response_1, response_2, ... in order.
ResponsesWellFormed ==
    /\ \A s \in 1..gen_i :
          /\ Cardinality(ResponsesOf(gen_surveys[s])) \in 1..3
          /\ \A a, b \in ResponsesOf(gen_surveys[s]) :
                a # b => gen_responses[a].user_id # gen_responses[b].user_id
    /\ \A k \in 1..Len(gen_responses) :
          /\ \E s \in 1..Len(gen_surveys) : gen_responses[k].survey_id = gen_surveys[s].id
          /\ \E u \in 1..Len(gen_users) : gen_responses[k].user_id = gen_users[u].id
          /\ gen_responses[k].id =
                PyStr(<< "r", "e", "s", "p", "o", "n", "s", "e", "_" >> \o Str(k))

WellFormedQuestion(question) ==
    /\ question.t = "dict"
    /\ question.id.t = "str"
    /\ question.type.t = "str"
    /\ \E q \in 1..Len(question_types) : question.type.s = << question_types[q] >>

\* A survey with a name, a type and a list of 3 to 5 well-formed questions.
WellFormedSurvey(survey) ==
    /\ survey.name.t = "str"
    /\ survey.type.t = "str"
    /\ survey.questions.t = "list"
    /\ Len(survey.questions.items) \in 3..5
    /\ \A q \in 1..Len(survey.questions.items) : WellFormedQuestion(survey.questions.items[q])

\* C20: the fallback of the generative path is total: whether the backend
\* raises, answers without JSON or answers with JSON that is no well-formed
\* survey, every generated survey has a name, a type and a list of 3 to 5
\* well-formed questions.
C20_FallbackTotal ==
    \A k \in 1..Len(gen_surveys) : WellFormedSurvey(gen_surveys[k])

\* The question ids of the survey are pairwise distinct.
QuestionIdsDistinct(survey) ==
    survey.questions.t = "list" =>
        \A a, b \in 1..Len(survey.questions.items) :
            a # b => survey.questions.items[a].id # survey.questions.items[b].id

\* The survey has n questions, 3 <= n <= 5, with ids q1..qn in order.
CannedQuestionIds(survey) ==
    /\ survey.questions.t = "list"
    /\ Len(survey.questions.items) \in 3..5
    /\ \A q \in 1..Len(survey.questions.items) :
          survey.questions.items[q].id = PyStr(<< "q" >> \o Str(q))

\* C21: in every generated survey the question ids are pairwise distinct: the
\* canned path gives ids q1..qn with 3 <= n <= 5, and on the generative path
\* the fill-in of missing ids never gives an id another question of the same
\* survey has.
C21_QuestionIdsDistinct ==
    \A k \in 1..Len(gen_surveys) :
        /\ QuestionIdsDistinct(gen_surveys[k])
        /\ ~use_openai => CannedQuestionIds(gen_surveys[k])

\* C22: the surveys, users and responses read back by the seed step are the
\* generated ones: the same structure, the same values, arrays in the same
\* order.
C22_RoundTrip ==
    pc = "loaded" =>
        /\ loaded.surveys = ListValue(gen_surveys, SurveyValue)
        /\ loaded.users = ListValue(gen_users, UserValue)
        /\ loaded.responses = ListValue(gen_responses, ResponseValue)

\* The questions of the survey being converted.
InputQuestionList == Get(surveys_data[1], Key("questions"), PyList(<< >>)).items

\* The emitted question has what its emitted type needs: a rating has scale,
\* range and left/right/center labels; an open text has placeholder and
\* inputType.
WellFormedForType(out) ==
    /\ Get(out, Key("type"), PyNone) = PyStr(<< "rating" >>) =>
          /\ Has(out, Key("scale"))
          /\ Has(out, Key("range"))
          /\ Has(out, Key("labels"))
          /\ \A side \in { "left", "right", "center" } :
                Has(Get(out, Key("labels"), PyDict(<< >>)), Key(side))
    /\ Get(out, Key("type"), PyNone) = PyStr(<< "openText" >>) =>
          /\ Has(out, Key("placeholder"))
          /\ Has(out, Key("inputType"))

\* A multiple-choice input is emitted as multipleChoiceMulti with one
\* {id, label} choice per input choice, in order, and multiSelect false.
MultipleChoiceEmitted(in, out) ==
    Get(in, Key("type"), PyNone) = PyStr(<< "multipleChoice" >>) =>
        /\ Get(out, Key("type"), PyNone) = PyStr(<< "multipleChoiceMulti" >>)
        /\ Get(out, Key("multiSelect"), PyNone) = PyBool(FALSE)
        /\ Has(out, Key("choices"))
        /\ Has(in, Key("choices")) =>
              LET given   == Get(in, Key("choices"), PyNone).items
                  emitted == Get(out, Key("choices"), PyNone).items
              IN  /\ Len(emitted) = Len(given)
                  /\ \A c \in 1..Len(emitted) :
                        /\ Has(emitted[c], Key("id"))
                        /\ Get(emitted[c], Key("label"), PyNone) \in
                              { Default(given[c]),
                                Default(PyStr(Str(IF given[c].t = "int" THEN given[c].n ELSE 0))) }

\* C23: the conversion keeps the number and the order of the questions, every
\* emitted question is well-formed for its emitted type (also for an input
\* without type or id), a multiple-choice input is emitted as
\* multipleChoiceMulti with its choices in order, and a question without id
\* gets the id question{n} of its position.
C23_QuestionsConverted ==
    pc \in { "convert_loop", "converted" } =>
        /\ pc = "converted" => Len(api_questions) = Len(InputQuestionList)
        /\ \A n \in 1..Len(api_questions) :
              /\ Get(api_questions[n], Key("id"), PyNone) =
                    Get(InputQuestionList[n], Key("id"), PyStr(<< "question" >> \o Str(n)))
              /\ Get(api_questions[n], Key("headline"), PyNone) =
                    Default(Get(InputQuestionList[n], Key("headline"),
                                PyStr(<< "Question " >> \o Str(n))))
              /\ WellFormedForType(api_questions[n])
              /\ MultipleChoiceEmitted(InputQuestionList[n], api_questions[n])

\* C24: create_surveys and submit_responses terminate for every input and
\* every remote behaviour; at most one request is sent per survey (there is
\* one candidate payload), at most four per response, and none for a response
\* whose survey reference cannot be resolved.
C24_RequestsBounded ==
    /\ <>(pc = "done")
    /\ [](/\ Len(create_log) <= 1
          /\ Len(submit_log) <= 4
          /\ (ResponseFinished /\ j > 1 /\ j - 1 <= Len(responses_in)
                /\ Unresolvable(responses_in[j - 1].survey_id)) => submit_log = << >>)

\* Both calls have returned; the last response was given up after four
\* requests.
C24_Witness ==
    /\ pc = "done"
    /\ Len(created_surveys) = 2
    /\ Len(responses_in) = 2
    /\ Len(submit_log) = 4
    /\ skipped_count = 2

\* The key an entry is filed under: its generated id, else "survey_" and its
\* position.
TableKey(entry) ==
    IF Truthy(entry.generated_id) THEN entry.generated_id
    ELSE PyStr(<< "s", "u", "r", "v", "e", "y", "_" >> \o Str(entry.position))

\* submit_responses is processing responses.
ProcessingResponses == pc \in { "submit_loop", "submit_try" }

\* C25: the lookup table of submit_responses is built before the first
\* response is processed, from the entries with api_success true only, each
\* under its generated id (else "survey_" + position); it is not modified
\* while responses are processed; and no request carries the id of an entry
\* whose api_success is false.
C25_LookupTableReadOnly ==
    /\ [](ProcessingResponses =>
            /\ \A key \in DOMAIN survey_mapping :
                  /\ survey_mapping[key].api_success
                  /\ TableKey(survey_mapping[key]) = key
                  /\ \E k \in 1..Len(created_surveys) : created_surveys[k] = survey_mapping[key]
            /\ \A k \in 1..Len(created_surveys) :
                  created_surveys[k].api_success =>
                      TableKey(created_surveys[k]) \in DOMAIN survey_mapping
            /\ \A r \in 1..Len(submit_log) :
                  \A k \in 1..Len(created_surveys) :
                      ~created_surveys[k].api_success =>
                          submit_log[r].surveyId # created_surveys[k].id)
    /\ [][ProcessingResponses => survey_mapping' = survey_mapping]_vars

\* One survey was created and one was not; a response was resolved through
\* the table and a request sent for it.
C25_Witness ==
    /\ ProcessingResponses
    /\ \E k \in 1..Len(created_surveys) : created_surveys[k].api_success
    /\ \E k \in 1..Len(created_surveys) : ~created_surveys[k].api_success
    /\ Cardinality(DOMAIN survey_mapping) = 1
    /\ j = 2
    /\ submit_log # << >>

\* C26: the results object of a seed run is consistent with the run:
\* surveys_created_via_api is the number of mapping entries with api_success
\* true, responses_submitted_via_api is the number of returned responses with
\* submitted true and never exceeds responses_generated, both are 0 when the
\* API was judged unavailable, and responses_submitted_via_api is 0 whenever
\* surveys_created_via_api is 0.
C26_ResultsConsistent ==
    [][pc' = "finished" =>
         /\ results'.responses_submitted_via_api <= results'.responses_generated
         /\ (results'.surveys_created_via_api = 0) =>
                (results'.responses_submitted_via_api = 0)
         /\ (api_available = PyBool(FALSE)) =>
                /\ ~results'.api_available
                /\ results'.surveys_created_via_api = 0
                /\ results'.responses_submitted_via_api = 0
         /\ (api_available = PyBool(TRUE)) =>
                /\ results'.api_available
                /\ results'.responses_generated = Len(responses_data)
                /\ results'.surveys_created_via_api =
                     Cardinality({ k \in 1..Len(created_surveys) :
                                     created_surveys[k].api_success })
                /\ results'.responses_submitted_via_api =
                     Cardinality({ k \in 1..Len(created_responses) :
                          responses_data[created_responses[k]].submitted
                            = PyBool(TRUE) })]_vars

C26_Witness ==
    /\ pc = "finished"
    /\ results # PyNone
    /\ results.api_available
    /\ results.surveys_created_via_api = 1
    /\ results.responses_submitted_via_api = 1
    /\ results.responses_generated = 2

\* retry_operation has been called and is running or has ended.
Retrying == pc \in { "retry_loop", "retry_returned", "retry_raised" }

\* The calls of the operation that raised.
FailedCalls == { k \in 1..Len(op_log) : op_log[k].kind = "raise" }

\* C27: retry_operation(operation, max_retries, delay) calls the operation at
\* most max_retries times (not at all for max_retries <= 0), returns the
\* result of the first call that does not raise without calling it again,
\* raises the last error again after max_retries failed calls, and waits
\* delay * 2^k after the k-th failed call (k from 0) except after the last
\* one; for max_retries >= 1 it never returns without a successful call.
C27_RetryOperation ==
    Retrying =>
        /\ Len(op_log) <= IF max_retries > 0 THEN max_retries ELSE 0
        /\ \A k \in 1..(Len(op_log) - 1) : k \in FailedCalls
        /\ \A k \in 1..Len(sleep_log) : sleep_log[k] = delay * 2^(k - 1)
        /\ pc = "retry_loop" =>
              /\ Len(op_log) < max_retries
              /\ Len(sleep_log) = Len(op_log)
              /\ retry_result = PyNone
        /\ (pc = "retry_returned" /\ max_retries >= 1) =>
              /\ op_log # << >>
              /\ Len(op_log) \notin FailedCalls
              /\ retry_result = [kind |-> "return", value |-> op_log[Len(op_log)].value]
              /\ Len(sleep_log) = Len(op_log) - 1
        /\ pc = "retry_raised" =>
              /\ Len(op_log) = max_retries
              /\ FailedCalls = 1..max_retries
              /\ retry_result = [kind |-> "raise", value |-> op_log[max_retries].value]
              /\ Len(sleep_log) = max_retries - 1

C27_Witness ==
    /\ pc = "retry_raised"
    /\ max_retries = 3
    /\ delay = 2
    /\ sleep_log = << 2, 4 >>
    /\ op_log[1].value # op_log[3].value

\* The returned responses that carry submitted true.
ReturnedSubmitted ==
    { k \in 1..Len(created_responses) :
        responses_data[created_responses[k]].submitted = PyBool(TRUE) }

\* C28: when submit_responses finishes after its loop (some survey was created
\* through the API, so the counters exist), the number of responses counted as
\* submitted plus the number counted as skipped/failed is the number of input
\* responses, and the submitted count is the number of returned responses with
\* submitted true, for every input and every remote behaviour; during the loop
\* the two counters add up to the number of responses dealt with.
C28_CountsAddUp ==
    Len(ApiSurveys(created_surveys)) > 0 =>
        /\ pc = "done" =>
              /\ response_count + skipped_count = Len(responses_in)
              /\ response_count = Cardinality(ReturnedSubmitted)
        /\ pc \in { "submit_loop", "submit_try" } =>
              /\ response_count + skipped_count = j - 1
              /\ response_count = Cardinality(ReturnedSubmitted)

C28_Witness ==
    /\ pc = "done"
    /\ Len(ApiSurveys(created_surveys)) > 0
    /\ Len(responses_in) = 2
    /\ response_count = 1
    /\ skipped_count = 1
    /\ Len(created_responses) = 1

\* C29: every create-survey request that the remote system accepts (answers
\* with a status create_surveys takes as success) yields a mapping entry with
\* api_success true whose remote id is the id the remote system assigned; an
\* accepted request is never recorded as a failure or given a locally
\* invented id, whatever the accepted response body holds (no id field,
\* unparsable body).
C29_AcceptedRequestRecorded ==
    (pc \in { "create_loop", "created", "prepared" } /\ Len(create_log) > 0) =>
        LET out == create_log[1].outcome
        IN  (out.kind = "response" /\ Accepted(out.status)) =>
               /\ Len(created_surveys) = i - 1
               /\ created_surveys[i - 1].api_success
               /\ created_surveys[i - 1].id = RemoteId(i - 1)
               /\ created_surveys[i - 1].survey_id = RemoteId(i - 1)

\* The request of the probe log was answered with status 200.
Answered200(probe) == probe.outcome.kind = "response" /\ probe.outcome.status = 200

\* C30: test_connection probes the surveys API only after the base URL
\* answered with status 200, returns true when the base URL answered 200
\* whatever status the surveys API probe returns, returns false when the base
\* URL answered another status or any request raised, and never raises (it
\* always returns a boolean); seed_command sends create-survey and
\* submit-response requests only after test_connection returned true.
C30_ConnectionTestGatesRequests ==
    /\ [][pc = "test_connection" =>
            /\ Len(probe_log') \in { 1, 2 }
            /\ probe_log'[1].url = "base_url"
            /\ (Len(probe_log') = 2) <=> Answered200(probe_log'[1])
            /\ Len(probe_log') = 2 =>
                  probe_log'[2].url = "/api/v1/management/surveys"
            /\ api_available' \in { PyBool(TRUE), PyBool(FALSE) }
            /\ (api_available' = PyBool(TRUE)) <=>
                  /\ Answered200(probe_log'[1])
                  /\ probe_log'[2].outcome.kind = "response"
            /\ (api_available' = PyBool(FALSE)) <=>
                  \/ ~Answered200(probe_log'[1])
                  \/ \E k \in 1..Len(probe_log') :
                        probe_log'[k].outcome.kind = "exception"
            /\ pc' = IF api_available' = PyBool(TRUE) THEN "start" ELSE "simulate"]_vars
    /\ []((create_log # << >> \/ submit_log # << >>
             \/ pc \in { "start", "create_loop", "created", "prepared",
                         "submit_loop", "submit_try", "done" })
            => api_available = PyBool(TRUE))

C30_Witness ==
    /\ pc = "start"
    /\ api_available = PyBool(TRUE)
    /\ Len(probe_log) = 2
    /\ probe_log[2].outcome.kind = "response"
    /\ probe_log[2].outcome.status = 500

====
